---- MODULE Spec2Model ----
(***************************************************************************)
(* A model of the discretized heat exchanger core of twine-models:         *)
(* boundary resolution, discretization, the second-law check, conductance  *)
(* (UA) through the effectiveness-NTU analyzers, and the given_ua search.  *)
(*                                                                         *)
(* Numbers.  An f64 is modelled as a fixed-point integer counting units of *)
(* 1/Scale, with three special values (NaN, PInf, NInf).  A result whose   *)
(* magnitude exceeds FMax becomes an infinity, the way an f64 result above *)
(* f64::MAX does; every operation rounds to the nearest unit.  There is no *)
(* negative zero: a zero divisor counts as +0.                             *)
(***************************************************************************)
EXTENDS Integers, Sequences, FiniteSets, TLC

\* ------------------------------------------------------------------ f64

Scale == 100
FMax == 40000
PInf == 1000000
NInf == -1000000
NaN == 2000000

IsNaN(a) == a = NaN
IsInf(a) == a = PInf \/ a = NInf
IsFinite(a) == ~IsNaN(a) /\ ~IsInf(a)

Sat(x) == IF x > FMax THEN PInf ELSE IF x < -FMax THEN NInf ELSE x

IAbs(x) == IF x < 0 THEN -x ELSE x

\* a / b rounded to the nearest integer (ties away from zero), b # 0
RoundDiv(a, b) ==
    LET q == (2 * IAbs(a) + IAbs(b)) \div (2 * IAbs(b))
    IN  IF (a < 0) = (b < 0) THEN q ELSE -q

FNeg(a) ==
    IF IsNaN(a) THEN NaN
    ELSE IF a = PInf THEN NInf
    ELSE IF a = NInf THEN PInf
    ELSE -a

FAbs(a) == IF IsNaN(a) THEN NaN ELSE IF a < 0 THEN FNeg(a) ELSE a

FAdd(a, b) ==
    IF IsNaN(a) \/ IsNaN(b) THEN NaN
    ELSE IF IsInf(a) /\ IsInf(b) THEN (IF a = b THEN a ELSE NaN)
    ELSE IF IsInf(a) THEN a
    ELSE IF IsInf(b) THEN b
    ELSE Sat(a + b)

FSub(a, b) == FAdd(a, FNeg(b))

FMul(a, b) ==
    IF IsNaN(a) \/ IsNaN(b) THEN NaN
    ELSE IF IsInf(a) \/ IsInf(b)
         THEN IF a = 0 \/ b = 0 THEN NaN
              ELSE IF (a < 0) = (b < 0) THEN PInf ELSE NInf
    ELSE Sat(RoundDiv(a * b, Scale))

FDiv(a, b) ==
    IF IsNaN(a) \/ IsNaN(b) THEN NaN
    ELSE IF IsInf(a)
         THEN IF IsInf(b) THEN NaN
              ELSE IF (a < 0) = (b < 0) THEN PInf ELSE NInf
    ELSE IF IsInf(b) THEN 0
    ELSE IF b = 0
         THEN IF a = 0 THEN NaN ELSE IF a > 0 THEN PInf ELSE NInf
    ELSE Sat(RoundDiv(a * Scale, b))

\* IEEE comparisons: every comparison with NaN is false
FLt(a, b) == ~IsNaN(a) /\ ~IsNaN(b) /\ a < b
FLe(a, b) == ~IsNaN(a) /\ ~IsNaN(b) /\ a <= b
FGt(a, b) == FLt(b, a)
FGe(a, b) == FLe(b, a)
FEq(a, b) == ~IsNaN(a) /\ ~IsNaN(b) /\ a = b

\* An integer n as an f64
Num(n) == n * Scale

\* ------------------------------------------------------ Option / Result

None == [some |-> FALSE, v |-> 0]
Some(x) == [some |-> TRUE, v |-> x]

\* A call returns a value, returns an error value, or panics (an expect()
\* on an Err or None unwinds through every caller).
Ok(x) == [ok |-> TRUE, panic |-> FALSE, v |-> x]
Err(e) == [ok |-> FALSE, panic |-> FALSE, v |-> e]
Panic(msg) == [ok |-> FALSE, panic |-> TRUE, v |-> msg]

\* `let x = value; body` is written Bind([x \in {value} |-> body]): the value
\* is computed once and bound to the name
Bind(f) == f[CHOOSE x \in DOMAIN f : TRUE]

\* --------------------------------------------------------- SolveError

NoNode == 0 - 1

ThermoContext(call, target, node) == [call |-> call, target |-> target, node |-> node]

thermo_failed(context, err) ==
    [kind |-> "ThermoModelFailed", context |-> context, source |-> err]

SecondLawViolation(top_outlet_temp, bottom_outlet_temp, q_dot, min_delta_t, violation_node) ==
    [kind |-> "SecondLawViolation",
     top_outlet_temp |-> top_outlet_temp,
     bottom_outlet_temp |-> bottom_outlet_temp,
     q_dot |-> q_dot,
     min_delta_t |-> min_delta_t,
     violation_node |-> violation_node]

\* ------------------------------------------------------------- thermo
\* A state is (temperature, density).  A thermo model th is
\*   [cp, jt, pconst, tmax, hmax, hole]:
\*   pconst = TRUE   the constant-cp, constant-pressure test model;
\*   pconst = FALSE  a real-fluid model: the density coordinate fixes the
\*                   pressure and the enthalpy depends on pressure through jt;
\*   tmax            the upper end of the model's domain (PInf: no limit);
\*                   a call outside the domain fails;
\*   hmax            the upper end of the domain of the enthalpy property
\*                   alone (a model whose enthalpy fails where its other
\*                   calls succeed);
\*   hole            an open interval of temperatures inside the domain at
\*                   which every call fails (NoHole: none).

State(temperature, density) == [temperature |-> temperature, density |-> density]

TestPressure == Num(10)
TestDensity == Num(1)

NoHole == [lo |-> PInf, hi |-> PInf]

InDomain(th, t) == ~FGt(t, th.tmax) /\ ~(FGt(t, th.hole.lo) /\ FLt(t, th.hole.hi))

\* The error value of a failing call: it names the temperature that is outside
\* the domain
ThermoError(what, t) == [error |-> what, temperature |-> t]

pressure(th, state) ==
    IF ~InDomain(th, state.temperature)
    THEN Err(ThermoError("PropertyError", state.temperature))
    ELSE IF th.pconst THEN Ok(TestPressure)
    ELSE Ok(state.density)

enthalpy(th, state) ==
    IF ~InDomain(th, state.temperature) \/ FGt(state.temperature, th.hmax)
    THEN Err(ThermoError("PropertyError", state.temperature))
    ELSE IF th.pconst THEN Ok(FMul(th.cp, state.temperature))
    ELSE Ok(FAdd(FMul(th.cp, state.temperature), FMul(th.jt, state.density)))

state_from_TP(th, t, p) ==
    IF ~InDomain(th, t) THEN Err(ThermoError("StateFromError", t))
    ELSE IF th.pconst THEN Ok(State(t, TestDensity))
    ELSE Ok(State(t, p))

state_from_PH(th, p, h) ==
    LET t == IF th.pconst THEN FDiv(h, th.cp)
             ELSE FDiv(FSub(h, FMul(th.jt, p)), th.cp)
    IN  IF ~InDomain(th, t) THEN Err(ThermoError("StateFromError", t))
        ELSE IF th.pconst THEN Ok(State(t, TestDensity))
        ELSE Ok(State(t, p))

\* ---------------------------------------------------- HeatTransferRate

TopToBottom(q) == [dir |-> "TopToBottom", mag |-> q]
BottomToTop(q) == [dir |-> "BottomToTop", mag |-> q]
HtrNone == [dir |-> "None", mag |-> 0]

from_signed_top_to_bottom(q_dot) ==
    IF FGt(q_dot, 0) THEN Ok(TopToBottom(q_dot))
    ELSE IF FLt(q_dot, 0) THEN Ok(BottomToTop(FNeg(q_dot)))
    ELSE IF FEq(q_dot, 0) THEN Ok(HtrNone)
    ELSE Err("NotANumber")

signed_top_to_bottom_unsigned(q) ==
    CASE q.dir = "TopToBottom" -> q.mag
      [] q.dir = "BottomToTop" -> q.mag
      [] OTHER -> 0

signed_top_to_bottom(q) ==
    CASE q.dir = "TopToBottom" -> q.mag
      [] q.dir = "BottomToTop" -> FNeg(q.mag)
      [] OTHER -> 0

magnitude(q) == IF q.dir = "None" THEN 0 ELSE q.mag

\* ------------------------------------------------------------ Resolved

heat_transfer_rate_from_signed_reversed(top_inlet_temp, bottom_inlet_temp, top_outlet_temp, bottom_outlet_temp, q_signed) ==
    LET r == from_signed_top_to_bottom(q_signed)
    IN  IF r.ok THEN r
        ELSE Err(SecondLawViolation(top_outlet_temp, bottom_outlet_temp, q_signed,
                                    FSub(bottom_inlet_temp, top_inlet_temp), None))

heat_transfer_rate_from_signed(top_inlet_temp, bottom_inlet_temp, top_outlet_temp, bottom_outlet_temp, q_signed) ==
    LET r == from_signed_top_to_bottom(q_signed)
    IN  IF r.ok THEN r
        ELSE Err(SecondLawViolation(top_outlet_temp, bottom_outlet_temp, q_signed,
                                    FSub(top_inlet_temp, bottom_inlet_temp), None))

\* h_top_out = top.h_in - q_signed / top.m_dot
top_outlet_enthalpy(h_in, q_signed, m_dot) == FSub(h_in, FDiv(q_signed, m_dot))

bottom_outlet_enthalpy_sign_slip(h_in, q_signed, m_dot) == FSub(h_in, FDiv(q_signed, m_dot))

\* h_bottom_out = bottom.h_in + q_signed / bottom.m_dot
bottom_outlet_enthalpy(h_in, q_signed, m_dot) == FAdd(h_in, FDiv(q_signed, m_dot))

StreamContext(inlet, h_in, p_in, p_out, m_dot) ==
    [inlet |-> inlet, h_in |-> h_in, p_in |-> p_in, p_out |-> p_out, m_dot |-> m_dot]

into_resolved(ctx, outlet) ==
    [inlet |-> ctx.inlet, outlet |-> outlet, h_in |-> ctx.h_in,
     p_in |-> ctx.p_in, p_out |-> ctx.p_out, m_dot |-> ctx.m_dot]

\* The resolved endpoints; h_top_out and h_bottom_out are the outlet
\* enthalpies the resolver works with (locals of the resolve functions).
ResolvedOf(top, bottom, top_out, bottom_out, q_dot, h_top_out, h_bottom_out) ==
    [top |-> into_resolved(top, top_out),
     bottom |-> into_resolved(bottom, bottom_out),
     q_dot |-> q_dot,
     h_top_out |-> h_top_out,
     h_bottom_out |-> h_bottom_out]

from_known_enthalpies_first(known, th) ==
    LET p_top_in == pressure(th, known.top_in)
        p_bottom_in == pressure(th, known.bottom_in)
        h_top_in == enthalpy(th, known.top_in)
        h_bottom_in == enthalpy(th, known.bottom_in)
    IN  IF ~h_top_in.ok
        THEN Err(thermo_failed(ThermoContext("enthalpy", "top inlet", NoNode), h_top_in.v))
        ELSE IF ~p_top_in.ok
        THEN Err(thermo_failed(ThermoContext("pressure", "top inlet", NoNode), p_top_in.v))
        ELSE IF ~p_bottom_in.ok
             THEN Err(thermo_failed(ThermoContext("pressure", "bottom inlet", NoNode),
                                    p_bottom_in.v))
        ELSE IF ~h_top_in.ok
             THEN Err(thermo_failed(ThermoContext("enthalpy", "top inlet", NoNode), h_top_in.v))
        ELSE IF ~h_bottom_in.ok
             THEN Err(thermo_failed(ThermoContext("enthalpy", "bottom inlet", NoNode),
                                    h_bottom_in.v))
        ELSE Ok([top |-> StreamContext(known.top_in, h_top_in.v, p_top_in.v,
                                       FSub(p_top_in.v, known.dp_top), known.m_top),
                 bottom |-> StreamContext(known.bottom_in, h_bottom_in.v, p_bottom_in.v,
                                          FSub(p_bottom_in.v, known.dp_bottom), known.m_bottom)])

from_known(known, th) ==
    LET p_top_in == pressure(th, known.top_in)
        p_bottom_in == pressure(th, known.bottom_in)
        h_top_in == enthalpy(th, known.top_in)
        h_bottom_in == enthalpy(th, known.bottom_in)
    IN  IF ~p_top_in.ok
        THEN Err(thermo_failed(ThermoContext("pressure", "top inlet", NoNode), p_top_in.v))
        ELSE IF ~p_bottom_in.ok
             THEN Err(thermo_failed(ThermoContext("pressure", "bottom inlet", NoNode),
                                    p_bottom_in.v))
        ELSE IF ~h_top_in.ok
             THEN Err(thermo_failed(ThermoContext("enthalpy", "top inlet", NoNode), h_top_in.v))
        ELSE IF ~h_bottom_in.ok
             THEN Err(thermo_failed(ThermoContext("enthalpy", "bottom inlet", NoNode),
                                    h_bottom_in.v))
        ELSE Ok([top |-> StreamContext(known.top_in, h_top_in.v, p_top_in.v,
                                       FSub(p_top_in.v, known.dp_top), known.m_top),
                 bottom |-> StreamContext(known.bottom_in, h_bottom_in.v, p_bottom_in.v,
                                          FSub(p_bottom_in.v, known.dp_bottom), known.m_bottom)])

resolve_from_top_outlet(ctx, t_out, th) ==
    LET top == ctx.top
        bottom == ctx.bottom
    IN  Bind([top_out \in {state_from_TP(th, t_out, top.p_out)} |->
        IF ~top_out.ok
        THEN Err(thermo_failed(ThermoContext("state_from", "top outlet", NoNode), top_out.v))
        ELSE
        Bind([h_top_out \in {enthalpy(th, top_out.v)} |->
        IF ~h_top_out.ok
        THEN Err(thermo_failed(ThermoContext("enthalpy", "top outlet", NoNode), h_top_out.v))
        ELSE
        Bind([q_signed \in {FMul(top.m_dot, FSub(top.h_in, h_top_out.v))} |->
        Bind([q_dot \in {heat_transfer_rate_from_signed(top.inlet.temperature,
                 bottom.inlet.temperature, Some(top_out.v.temperature), None, q_signed)} |->
        IF ~q_dot.ok THEN q_dot
        ELSE
        Bind([h_bottom_out \in {bottom_outlet_enthalpy(bottom.h_in, q_signed, bottom.m_dot)} |->
        Bind([bottom_out \in {state_from_PH(th, bottom.p_out, h_bottom_out)} |->
        IF ~bottom_out.ok
        THEN Err(thermo_failed(ThermoContext("state_from", "bottom outlet", NoNode), bottom_out.v))
        ELSE Ok(ResolvedOf(top, bottom, top_out.v, bottom_out.v, q_dot.v,
                           h_top_out.v, h_bottom_out))])])])])])])

resolve_from_bottom_outlet(ctx, t_out, th) ==
    LET top == ctx.top
        bottom == ctx.bottom
    IN  Bind([bottom_out \in {state_from_TP(th, t_out, bottom.p_out)} |->
        IF ~bottom_out.ok
        THEN Err(thermo_failed(ThermoContext("state_from", "bottom outlet", NoNode), bottom_out.v))
        ELSE
        Bind([h_bottom_out \in {enthalpy(th, bottom_out.v)} |->
        IF ~h_bottom_out.ok
        THEN Err(thermo_failed(ThermoContext("enthalpy", "bottom outlet", NoNode), h_bottom_out.v))
        ELSE
        Bind([q_signed \in {FMul(bottom.m_dot, FSub(h_bottom_out.v, bottom.h_in))} |->
        Bind([q_dot \in {heat_transfer_rate_from_signed(top.inlet.temperature,
                 bottom.inlet.temperature, None, Some(bottom_out.v.temperature), q_signed)} |->
        IF ~q_dot.ok THEN q_dot
        ELSE
        Bind([h_top_out \in {top_outlet_enthalpy(top.h_in, q_signed, top.m_dot)} |->
        Bind([top_out \in {state_from_PH(th, top.p_out, h_top_out)} |->
        IF ~top_out.ok
        THEN Err(thermo_failed(ThermoContext("state_from", "top outlet", NoNode), top_out.v))
        ELSE Ok(ResolvedOf(top, bottom, top_out.v, bottom_out.v, q_dot.v,
                           h_top_out, h_bottom_out.v))])])])])])])

resolve_from_heat_transfer_rate(ctx, q_dot, th) ==
    LET top == ctx.top
        bottom == ctx.bottom
    IN  Bind([q_signed \in {signed_top_to_bottom(q_dot)} |->
        Bind([h_top_out \in {top_outlet_enthalpy(top.h_in, q_signed, top.m_dot)} |->
        Bind([h_bottom_out \in {bottom_outlet_enthalpy(bottom.h_in, q_signed, bottom.m_dot)} |->
        Bind([top_out \in {state_from_PH(th, top.p_out, h_top_out)} |->
        Bind([bottom_out \in {state_from_PH(th, bottom.p_out, h_bottom_out)} |->
        IF ~top_out.ok
        THEN Err(thermo_failed(ThermoContext("state_from", "top outlet", NoNode), top_out.v))
        ELSE IF ~bottom_out.ok
             THEN Err(thermo_failed(ThermoContext("state_from", "bottom outlet", NoNode),
                                    bottom_out.v))
        ELSE Ok(ResolvedOf(top, bottom, top_out.v, bottom_out.v, q_dot,
                           h_top_out, h_bottom_out))])])])])])

Resolved_new(known, given, th) ==
    Bind([context \in {from_known(known, th)} |->
    IF ~context.ok THEN context
    ELSE CASE given.kind = "TopOutletTemp" ->
                  resolve_from_top_outlet(context.v, given.t, th)
           [] given.kind = "BottomOutletTemp" ->
                  resolve_from_bottom_outlet(context.v, given.t, th)
           [] OTHER ->
                  resolve_from_heat_transfer_rate(context.v, given.q, th)])

\* --------------------------------------------------------------- Nodes

CounterFlow == "CounterFlow"
ParallelFlow == "ParallelFlow"

BOTTOM_FLOWS_LEFT_TO_RIGHT(arrangement) == arrangement = ParallelFlow

bottom_select(arrangement, forward, reverse) ==
    IF BOTTOM_FLOWS_LEFT_TO_RIGHT(arrangement) THEN forward ELSE reverse

linear_array(N, start, end) ==
    LET segments == Num(N - 1)
        span == FSub(end, start)
    IN  [i \in 0..(N - 1) |-> FAdd(start, FMul(span, FDiv(Num(i), segments)))]

compute_node_arrays(arrangement, N, resolved, q_signed) ==
    LET h_top_out == top_outlet_enthalpy(resolved.top.h_in, q_signed, resolved.top.m_dot)
        h_bottom_out == bottom_outlet_enthalpy(resolved.bottom.h_in, q_signed,
                                               resolved.bottom.m_dot)
    IN  [top_pressures |-> linear_array(N, resolved.top.p_in, resolved.top.p_out),
         bottom_pressures |->
             bottom_select(arrangement,
                 linear_array(N, resolved.bottom.p_in, resolved.bottom.p_out),
                 linear_array(N, resolved.bottom.p_out, resolved.bottom.p_in)),
         top_enthalpies |-> linear_array(N, resolved.top.h_in, h_top_out),
         bottom_enthalpies |->
             bottom_select(arrangement,
                 linear_array(N, resolved.bottom.h_in, h_bottom_out),
                 linear_array(N, h_bottom_out, resolved.bottom.h_in))]

\* The interior nodes, in index order, whose state_from call fails
FailingNodes(th, N, pressures, enthalpies) ==
    {i \in 1..(N - 2) : ~state_from_PH(th, pressures[i], enthalpies[i]).ok}

SetMin(S) == CHOOSE x \in S : \A y \in S : x <= y

\* build_states with the endpoint entries recomputed from (P, h) instead of
\* being the resolved endpoint states
build_states_recomputed(th, N, side, inlet, outlet, pressures, enthalpies, inlet_at_start) ==
    LET failing == {i \in 0..(N - 1) : ~state_from_PH(th, pressures[i], enthalpies[i]).ok}
    IN  IF failing # {}
        THEN Err(thermo_failed(ThermoContext("state_from", side, SetMin(failing)),
                               state_from_PH(th, pressures[SetMin(failing)],
                                             enthalpies[SetMin(failing)]).v))
        ELSE Ok([i \in 0..(N - 1) |-> state_from_PH(th, pressures[i], enthalpies[i]).v])

build_states(th, N, side, inlet, outlet, pressures, enthalpies, inlet_at_start) ==
    LET inlet_index == IF inlet_at_start THEN 0 ELSE N - 1
        outlet_index == IF inlet_at_start THEN N - 1 ELSE 0
        failing == FailingNodes(th, N, pressures, enthalpies)
    IN  IF failing # {}
        THEN Err(thermo_failed(ThermoContext("state_from", side, SetMin(failing)),
                               state_from_PH(th, pressures[SetMin(failing)],
                                             enthalpies[SetMin(failing)]).v))
        ELSE Ok([i \in 0..(N - 1) |->
                    IF i = outlet_index THEN outlet
                    ELSE IF i = inlet_index THEN inlet
                    ELSE state_from_PH(th, pressures[i], enthalpies[i]).v])

build_node_states(arrangement, N, resolved, th, arrays) ==
    Bind([top_states \in {build_states(th, N, "top node", resolved.top.inlet, resolved.top.outlet,
                      arrays.top_pressures, arrays.top_enthalpies, TRUE)} |->
    IF ~top_states.ok THEN top_states
    ELSE
    Bind([bottom_states \in {build_states(th, N, "bottom node", resolved.bottom.inlet,
                      resolved.bottom.outlet, arrays.bottom_pressures,
                      arrays.bottom_enthalpies, bottom_select(arrangement, TRUE, FALSE))} |->
    IF ~bottom_states.ok THEN bottom_states
    ELSE Ok([top |-> top_states.v, bottom |-> bottom_states.v])])])

Nodes_new(arrangement, N, resolved, th) ==
    Bind([q_signed \in {signed_top_to_bottom(resolved.q_dot)} |->
    Bind([arrays \in {compute_node_arrays(arrangement, N, resolved, q_signed)} |->
    Bind([states \in {build_node_states(arrangement, N, resolved, th, arrays)} |->
    IF ~states.ok THEN states
    ELSE Ok([top |-> states.v.top,
             bottom |-> states.v.bottom,
             top_enthalpies |-> arrays.top_enthalpies,
             bottom_enthalpies |-> arrays.bottom_enthalpies])])])])

\* ------------------------------------------------------- min_delta_t

MinDeltaT(value, node) == [value |-> value, node |-> node]

\* delta_t at node i, hot side minus cold side
NodeDeltaT_top_minus_bottom(nodes, top_is_hot, i) ==
    FSub(nodes.top[i].temperature, nodes.bottom[i].temperature)

NodeDeltaT(nodes, top_is_hot, i) ==
    IF top_is_hot
    THEN FSub(nodes.top[i].temperature, nodes.bottom[i].temperature)
    ELSE FSub(nodes.bottom[i].temperature, nodes.top[i].temperature)

\* The loop of compute_min_delta_t over nodes 0..k-1
RECURSIVE MinDeltaTLoop(_, _, _)
MinDeltaTLoop(nodes, top_is_hot, k) ==
    IF k = 0 THEN MinDeltaT(PInf, 0)
    ELSE Bind([prev \in {MinDeltaTLoop(nodes, top_is_hot, k - 1)} |->
         Bind([delta_t \in {NodeDeltaT(nodes, top_is_hot, k - 1)} |->
         IF FLt(delta_t, prev.value) THEN MinDeltaT(delta_t, k - 1) ELSE prev])])

compute_min_delta_t_inlets(arrangement, N, nodes) ==
    LET top_inlet_temp == nodes.top[0].temperature
        bottom_inlet_index == bottom_select(arrangement, 0, N - 1)
        bottom_inlet_temp == nodes.bottom[bottom_inlet_index].temperature
    IN  MinDeltaT(FAbs(FSub(top_inlet_temp, bottom_inlet_temp)), 0)

compute_min_delta_t(arrangement, N, nodes) ==
    LET top_inlet_temp == nodes.top[0].temperature
        bottom_inlet_index == bottom_select(arrangement, 0, N - 1)
        bottom_inlet_temp == nodes.bottom[bottom_inlet_index].temperature
    IN  Bind([top_is_hot \in {FGe(top_inlet_temp, bottom_inlet_temp)} |->
        MinDeltaTLoop(nodes, top_is_hot, N)])

direction_mismatch_swapped(q_dot, top_is_hot) ==
    IF q_dot.dir = "TopToBottom" THEN top_is_hot ELSE ~top_is_hot

direction_mismatch(q_dot, top_is_hot) ==
    IF q_dot.dir = "TopToBottom" THEN ~top_is_hot ELSE top_is_hot

negative_delta_t_never(min_delta_t) == FALSE

negative_delta_t(min_delta_t) == FLt(min_delta_t.value, 0)

check_second_law(resolved, min_delta_t) ==
    IF resolved.q_dot.dir = "None" THEN Ok(TRUE)
    ELSE LET top_is_hot == FGe(resolved.top.inlet.temperature,
                               resolved.bottom.inlet.temperature)
         IN  IF direction_mismatch(resolved.q_dot, top_is_hot)
                \/ negative_delta_t(min_delta_t)
             THEN Err(SecondLawViolation(Some(resolved.top.outlet.temperature),
                                         Some(resolved.bottom.outlet.temperature),
                                         signed_top_to_bottom(resolved.q_dot),
                                         min_delta_t.value,
                                         Some(min_delta_t.node)))
             ELSE Ok(TRUE)

\* -------------------------------------------------------- constraints

StrictlyPositive_check(value) ==
    IF FGt(value, 0) THEN Ok(value)
    ELSE IF FEq(value, 0) THEN Err("Zero")
    ELSE IF FLt(value, 0) THEN Err("Negative")
    ELSE Err("NotANumber")

NonNegative_check(value) ==
    IF FGe(value, 0) THEN Ok(value)
    ELSE IF FLt(value, 0) THEN Err("Negative")
    ELSE Err("NotANumber")

UnitInterval_check(value) ==
    IF IsNaN(value) THEN Err("NotANumber")
    ELSE IF FLt(value, 0) THEN Err("BelowMinimum")
    ELSE IF FGt(value, Num(1)) THEN Err("AboveMaximum")
    ELSE Ok(value)

NonPositive_check(value) ==
    IF FLe(value, 0) THEN Ok(value)
    ELSE IF FGt(value, 0) THEN Err("Positive")
    ELSE Err("NotANumber")

NonZero_check(value) ==
    IF FGt(value, 0) \/ FLt(value, 0) THEN Ok(value)
    ELSE IF FEq(value, 0) THEN Err("Zero")
    ELSE Err("NotANumber")

StrictlyNegative_check(value) ==
    IF FLt(value, 0) THEN Ok(value)
    ELSE IF FEq(value, 0) THEN Err("Zero")
    ELSE IF FGt(value, 0) THEN Err("Negative")
    ELSE Err("NotANumber")

UnitIntervalOpen_check(value) ==
    IF IsNaN(value) THEN Err("NotANumber")
    ELSE IF FLe(value, 0) THEN Err("BelowMinimum")
    ELSE IF FGe(value, Num(1)) THEN Err("AboveMaximum")
    ELSE Ok(value)

UnitIntervalLowerOpen_check_closed(value) ==
    IF IsNaN(value) THEN Err("NotANumber")
    ELSE IF FLt(value, 0) THEN Err("BelowMinimum")
    ELSE IF FGt(value, Num(1)) THEN Err("AboveMaximum")
    ELSE Ok(value)

UnitIntervalLowerOpen_check(value) ==
    IF IsNaN(value) THEN Err("NotANumber")
    ELSE IF FLe(value, 0) THEN Err("BelowMinimum")
    ELSE IF FGt(value, Num(1)) THEN Err("AboveMaximum")
    ELSE Ok(value)

UnitIntervalUpperOpen_check(value) ==
    IF IsNaN(value) THEN Err("NotANumber")
    ELSE IF FLt(value, 0) THEN Err("BelowMinimum")
    ELSE IF FGe(value, Num(1)) THEN Err("AboveMaximum")
    ELSE Ok(value)

\* C::check for the marker type C
Constraint_check(marker, value) ==
    CASE marker = "NonNegative" -> NonNegative_check(value)
      [] marker = "NonPositive" -> NonPositive_check(value)
      [] marker = "NonZero" -> NonZero_check(value)
      [] marker = "StrictlyPositive" -> StrictlyPositive_check(value)
      [] marker = "StrictlyNegative" -> StrictlyNegative_check(value)
      [] marker = "UnitInterval" -> UnitInterval_check(value)
      [] marker = "UnitIntervalOpen" -> UnitIntervalOpen_check(value)
      [] marker = "UnitIntervalLowerOpen" -> UnitIntervalLowerOpen_check(value)
      [] marker = "UnitIntervalUpperOpen" -> UnitIntervalUpperOpen_check(value)

Constrained(marker, value) == [marker |-> marker, value |-> value]

Constrained_new(marker, value) ==
    Bind([c \in {Constraint_check(marker, value)} |->
    IF ~c.ok THEN c ELSE Ok(Constrained(marker, value))])

into_inner(constrained) == constrained.value

\* A fixed-width signed integer payload (i32 in the tests), IntBits wide
IntBits == 4
IntMin == 0 - 2 ^ (IntBits - 1)
IntMax == 2 ^ (IntBits - 1) - 1
WrapInt(x) == ((x - IntMin) % (2 ^ IntBits)) + IntMin

\* T::add for the payload type: f64 addition, or integer addition, which
\* panics on overflow in a build with overflow checks and wraps in one without
T_add(ty, build, a, b) ==
    IF ty = "f64" THEN Ok(FAdd(a, b))
    ELSE IF a + b >= IntMin /\ a + b <= IntMax THEN Ok(a + b)
    ELSE IF build = "debug" THEN Panic("attempt to add with overflow")
    ELSE Ok(WrapInt(a + b))

\* impl Add for Constrained<T, C>: the sum is wrapped without a check; the
\* debug_assert! on the marker's predicate exists in a debug build only
Constrained_add(ty, build, lhs, rhs) ==
    Bind([value \in {T_add(ty, build, lhs.value, rhs.value)} |->
    IF value.panic THEN value
    ELSE IF build = "debug" /\ ~Constraint_check(lhs.marker, value.v).ok
    THEN Panic("Addition violated the bound invariant")
    ELSE Ok(Constrained(lhs.marker, value.v))])

\* f64::min and f64::max: a NaN operand is ignored
Fmin(a, b) == IF IsNaN(a) THEN b ELSE IF IsNaN(b) THEN a ELSE IF a < b THEN a ELSE b
Fmax(a, b) == IF IsNaN(a) THEN b ELSE IF IsNaN(b) THEN a ELSE IF a > b THEN a ELSE b

\* ----------------------------------------------------------- f64::ln
\* ln(n/d) in units of 1/LnPrec, for integers n, d > 0: the argument is
\* brought into [1, 2) by powers of two, then 2*atanh((n-d)/(n+d)).

LnPrec == 10000
Ln2 == 6931

RECURSIVE LnRatio(_, _)
LnRatio(n, d) ==
    IF n >= 2 * d THEN Ln2 + LnRatio(n, 2 * d)
    ELSE IF n < d THEN LnRatio(2 * n, d) - Ln2
    ELSE LET y == RoundDiv((n - d) * LnPrec, n + d)
             y2 == RoundDiv(y * y, LnPrec)
             y3 == RoundDiv(y2 * y, LnPrec)
             y5 == RoundDiv(y3 * y2, LnPrec)
             y7 == RoundDiv(y5 * y2, LnPrec)
         IN  2 * (y + RoundDiv(y3, 3) + RoundDiv(y5, 5) + RoundDiv(y7, 7))

Ln(x) ==
    IF IsNaN(x) THEN NaN
    ELSE IF x = PInf THEN PInf
    ELSE IF x < 0 THEN NaN
    ELSE IF x = 0 THEN NInf
    ELSE Sat(RoundDiv(LnRatio(x, Scale) * Scale, LnPrec))

\* ------------------------------------- f64::exp, f64::sqrt, f64::powi
\* exp of r/LnPrec for 0 <= r < Ln2, in units of 1/LnPrec, by its series

ExpFrac(r) ==
    LET r2 == RoundDiv(r * r, LnPrec)
        r3 == RoundDiv(r2 * r, LnPrec)
        r4 == RoundDiv(r3 * r, LnPrec)
        r5 == RoundDiv(r4 * r, LnPrec)
        r6 == RoundDiv(r5 * r, LnPrec)
    IN  LnPrec + r + RoundDiv(r2, 2) + RoundDiv(r3, 6) + RoundDiv(r4, 24)
            + RoundDiv(r5, 120) + RoundDiv(r6, 720)

\* The argument is split as k * ln 2 + r; beyond +-6 the result is above FMax
\* or below half a unit
Exp(x) ==
    IF IsNaN(x) THEN NaN
    ELSE IF x = PInf \/ x > Num(6) THEN PInf
    ELSE IF x = NInf \/ x < 0 - Num(6) THEN 0
    ELSE LET xp == x * (LnPrec \div Scale)
             k == xp \div Ln2
             f == ExpFrac(xp - k * Ln2)
         IN  IF k >= 0 THEN Sat(RoundDiv(f * (2 ^ k) * Scale, LnPrec))
             ELSE RoundDiv(f * Scale, LnPrec * (2 ^ (0 - k)))

\* The integer nearest to the square root of n >= 0, by bisection on lo..hi
RECURSIVE ISqrt(_, _, _)
ISqrt(n, lo, hi) ==
    IF hi - lo <= 1
    THEN IF n - lo * lo <= hi * hi - n THEN lo ELSE hi
    ELSE LET mid == (lo + hi) \div 2
         IN  IF mid * mid <= n THEN ISqrt(n, mid, hi) ELSE ISqrt(n, lo, mid)

Sqrt(x) ==
    IF IsNaN(x) \/ x < 0 THEN NaN
    ELSE IF x = PInf THEN PInf
    ELSE ISqrt(x * Scale, 0, x + Scale)

RECURSIVE Powi(_, _)
Powi(x, n) == IF n = 0 THEN Num(1) ELSE FMul(x, Powi(x, n - 1))

\* f64::powf(x, 1/n): the n-th root, by bisection on lo..hi
RECURSIVE IRoot(_, _, _, _)
IRoot(x, n, lo, hi) ==
    IF hi - lo <= 1
    THEN IF FLe(FSub(x, Powi(lo, n)), FSub(Powi(hi, n), x)) THEN lo ELSE hi
    ELSE LET mid == (lo + hi) \div 2
         IN  IF FLe(Powi(mid, n), x) THEN IRoot(x, n, mid, hi) ELSE IRoot(x, n, lo, mid)

Root(x, n) ==
    IF IsNaN(x) \/ x < 0 THEN NaN
    ELSE IF x = PInf THEN PInf
    ELSE IRoot(x, n, 0, x + Scale)

\* ------------------------------------------------- HeatFlow and Stream

HeatFlowNone == [dir |-> "None", rate |-> 0]

incoming(heat_rate) ==
    LET c == StrictlyPositive_check(heat_rate)
    IN  IF c.ok THEN Ok([dir |-> "In", rate |-> heat_rate]) ELSE c

outgoing(heat_rate) ==
    LET c == StrictlyPositive_check(heat_rate)
    IN  IF c.ok THEN Ok([dir |-> "Out", rate |-> heat_rate]) ELSE c

HeatFlow_from_signed(heat_rate) ==
    IF FGt(heat_rate, 0) THEN incoming(heat_rate)
    ELSE IF FLt(heat_rate, 0) THEN outgoing(FNeg(heat_rate))
    ELSE IF FEq(heat_rate, 0) THEN Ok(HeatFlowNone)
    ELSE Err("NotANumber")

HeatFlow_signed(flow) ==
    CASE flow.dir = "In" -> flow.rate
      [] flow.dir = "Out" -> FNeg(flow.rate)
      [] OTHER -> 0

StreamInlet(capacitance_rate, temperature) ==
    [capacitance_rate |-> capacitance_rate, temperature |-> temperature]

new_from_heat_flow(capacitance_rate, inlet_temperature, heat_flow) ==
    [capacitance_rate |-> capacitance_rate,
     inlet_temperature |-> inlet_temperature,
     outlet_temperature |->
         CASE heat_flow.dir = "In" ->
                  FAdd(inlet_temperature, FDiv(heat_flow.rate, capacitance_rate))
           [] heat_flow.dir = "Out" ->
                  FSub(inlet_temperature, FDiv(heat_flow.rate, capacitance_rate))
           [] OTHER -> inlet_temperature,
     heat_flow |-> heat_flow]

with_heat_flow(inlet, heat_flow) ==
    new_from_heat_flow(inlet.capacitance_rate, inlet.temperature, heat_flow)

StreamOf(capacitance_rate, inlet_temperature, outlet_temperature, heat_flow) ==
    [capacitance_rate |-> capacitance_rate,
     inlet_temperature |-> inlet_temperature,
     outlet_temperature |-> outlet_temperature,
     heat_flow |-> heat_flow]

new_from_outlet_temperature(capacitance_rate, inlet_temperature, outlet_temperature) ==
    IF IsNaN(inlet_temperature) \/ IsNaN(outlet_temperature)
    THEN Panic("temperatures to be comparable")
    ELSE IF FEq(inlet_temperature, outlet_temperature)
    THEN Ok(StreamOf(capacitance_rate, inlet_temperature, outlet_temperature,
                     HeatFlowNone))
    ELSE
    Bind([heat_rate_magnitude \in {FMul(capacitance_rate, FAbs(FSub(inlet_temperature, outlet_temperature)))} |->
    Bind([flow \in {IF FLt(inlet_temperature, outlet_temperature)
         THEN incoming(heat_rate_magnitude)
         ELSE outgoing(heat_rate_magnitude)} |->
    IF ~flow.ok THEN Panic("heat rate magnitude should always be positive")
    ELSE Ok(StreamOf(capacitance_rate, inlet_temperature, outlet_temperature, flow.v))])])

StreamInlet_from(stream) == StreamInlet(stream.capacitance_rate, stream.inlet_temperature)

\* ---------------------------------------------------- effectiveness-NTU

CapacityRatio_from_capacitance_rates(capacitance_rates) ==
    LET first == capacitance_rates[1]
        second == capacitance_rates[2]
    IN  Bind([c \in {UnitInterval_check(FDiv(Fmin(first, second), Fmax(first, second)))} |->
        IF c.ok THEN c ELSE Panic("capacitance rates should always be positive")])

Ntu_new(value) == NonNegative_check(value)

Effectiveness_new(value) == UnitInterval_check(value)

ParallelFlow_ntu_raw(eff, cr) ==
    FDiv(FNeg(Ln(FSub(Num(1), FMul(eff, FAdd(Num(1), cr))))), FAdd(Num(1), cr))

CounterFlow_ntu_raw(eff, cr) ==
    IF FLt(cr, Num(1))
    THEN FDiv(Ln(FDiv(FSub(Num(1), FMul(eff, cr)), FSub(Num(1), eff))),
              FSub(Num(1), cr))
    ELSE FDiv(eff, FSub(Num(1), eff))

\* The other arrangements, named by their types; CrossFlow<Mixed, Unmixed>
\* has one closure for C0 >= C1 and one for C0 < C1
CrossFlowMixedUnmixed == "CrossFlow<Mixed, Unmixed>"
CrossFlowUnmixedMixed == "CrossFlow<Unmixed, Mixed>"
MixedUnmixedGe == "CrossFlow<Mixed, Unmixed>, C0 >= C1"
MixedUnmixedLt == "CrossFlow<Mixed, Unmixed>, C0 < C1"
ShellAndTubes ==
    {"ShellAndTube<1, 2>", "ShellAndTube<1, 4>", "ShellAndTube<2, 4>", "ShellAndTube<3, 12>"}

\* The const parameter S of a ShellAndTube<S, T>
ShellPasses(arrangement) ==
    CASE arrangement = "ShellAndTube<1, 2>" -> 1
      [] arrangement = "ShellAndTube<1, 4>" -> 1
      [] arrangement = "ShellAndTube<2, 4>" -> 2
      [] arrangement = "ShellAndTube<3, 12>" -> 3

MixedUnmixedGe_ntu_raw(eff, cr) ==
    FNeg(Ln(FAdd(Num(1), FDiv(Ln(FSub(Num(1), FMul(eff, cr))), cr))))

MixedUnmixedLt_ntu_raw(eff, cr) ==
    FDiv(FNeg(Ln(FAdd(FMul(cr, Ln(FSub(Num(1), eff))), Num(1)))), cr)

ShellAndTube_ntu_1(eff_1, cr) ==
    Bind([root \in {Sqrt(FAdd(Num(1), Powi(cr, 2)))} |->
    Bind([e \in {FDiv(FSub(Num(2), FMul(eff_1, FAdd(Num(1), cr))), FMul(eff_1, root))} |->
    FDiv(Ln(FDiv(FAdd(e, Num(1)), FSub(e, Num(1)))), root)])])

ShellAndTube_ntu_raw(S, eff, cr) ==
    IF S = 1 THEN ShellAndTube_ntu_1(eff, cr)
    ELSE IF FLt(cr, Num(1))
    THEN Bind([f \in {Root(FDiv(FSub(FMul(eff, cr), Num(1)), FSub(eff, Num(1))), S)} |->
         ShellAndTube_ntu_1(FDiv(FSub(f, Num(1)), FSub(f, cr)), cr)])
    ELSE ShellAndTube_ntu_1(FDiv(eff, FSub(Num(S), FMul(eff, FSub(Num(S), Num(1))))), cr)

ntu_raw(arrangement, eff, cr) ==
    CASE arrangement = ParallelFlow -> ParallelFlow_ntu_raw(eff, cr)
      [] arrangement = CounterFlow -> CounterFlow_ntu_raw(eff, cr)
      [] arrangement = MixedUnmixedGe -> MixedUnmixedGe_ntu_raw(eff, cr)
      [] arrangement = MixedUnmixedLt -> MixedUnmixedLt_ntu_raw(eff, cr)
      [] OTHER -> ShellAndTube_ntu_raw(ShellPasses(arrangement), eff, cr)

ntu_via(arrangement, effectiveness, capacitance_rates) ==
    Bind([cr \in {CapacityRatio_from_capacitance_rates(capacitance_rates)} |->
    IF cr.panic THEN cr
    ELSE
    Bind([n \in {IF FEq(cr.v, 0)
         THEN Ntu_new(FNeg(Ln(FSub(Num(1), effectiveness))))
         ELSE Ntu_new(ntu_raw(arrangement, effectiveness, cr.v))} |->
    IF ~n.ok THEN Panic("effectiveness should always yield valid ntu")
    ELSE n])])

\* impl NtuRelation: the arrangement's ntu method
NtuRelation_ntu(arrangement, effectiveness, capacitance_rates) ==
    CASE arrangement = CrossFlowMixedUnmixed ->
             IF FGe(capacitance_rates[1], capacitance_rates[2])
             THEN ntu_via(MixedUnmixedGe, effectiveness, capacitance_rates)
             ELSE ntu_via(MixedUnmixedLt, effectiveness, capacitance_rates)
      [] arrangement = CrossFlowUnmixedMixed ->
             IF FGe(capacitance_rates[2], capacitance_rates[1])
             THEN ntu_via(MixedUnmixedGe, effectiveness,
                          <<capacitance_rates[2], capacitance_rates[1]>>)
             ELSE ntu_via(MixedUnmixedLt, effectiveness,
                          <<capacitance_rates[2], capacitance_rates[1]>>)
      [] OTHER -> ntu_via(arrangement, effectiveness, capacitance_rates)

CounterFlow_effectiveness_raw(ntu, cr) ==
    IF FLt(cr, Num(1))
    THEN Bind([e \in {Exp(FMul(FNeg(ntu), FSub(Num(1), cr)))} |->
         FDiv(FSub(Num(1), e), FSub(Num(1), FMul(cr, e)))])
    ELSE FDiv(ntu, FAdd(Num(1), ntu))

ParallelFlow_effectiveness_raw(ntu, cr) ==
    FDiv(FSub(Num(1), Exp(FMul(FNeg(ntu), FAdd(Num(1), cr)))), FAdd(Num(1), cr))

MixedUnmixedGe_effectiveness_raw(ntu, cr) ==
    FDiv(FSub(Num(1), Exp(FMul(cr, FSub(Exp(FNeg(ntu)), Num(1))))), cr)

MixedUnmixedLt_effectiveness_raw(ntu, cr) ==
    FSub(Num(1), Exp(FNeg(FDiv(FSub(Num(1), Exp(FMul(FNeg(cr), ntu))), cr))))

ShellAndTube_eff_1(ntu_1, cr) ==
    Bind([root \in {Sqrt(FAdd(Num(1), Powi(cr, 2)))} |->
    Bind([e \in {Exp(FMul(FNeg(ntu_1), root))} |->
    FDiv(Num(2),
         FAdd(FAdd(Num(1), cr),
              FDiv(FMul(root, FAdd(Num(1), e)), FSub(Num(1), e))))])])

ShellAndTube_effectiveness_raw(S, ntu_1, cr) ==
    Bind([eff_1 \in {ShellAndTube_eff_1(ntu_1, cr)} |->
    IF S = 1 THEN eff_1
    ELSE IF FLt(cr, Num(1))
    THEN Bind([p \in {Powi(FDiv(FSub(Num(1), FMul(eff_1, cr)), FSub(Num(1), eff_1)), S)} |->
         FDiv(FSub(p, Num(1)), FSub(p, cr))])
    ELSE FDiv(FMul(Num(S), eff_1), FAdd(Num(1), FMul(eff_1, FSub(Num(S), Num(1)))))])

effectiveness_raw(arrangement, ntu, cr) ==
    CASE arrangement = ParallelFlow -> ParallelFlow_effectiveness_raw(ntu, cr)
      [] arrangement = CounterFlow -> CounterFlow_effectiveness_raw(ntu, cr)
      [] arrangement = MixedUnmixedGe -> MixedUnmixedGe_effectiveness_raw(ntu, cr)
      [] arrangement = MixedUnmixedLt -> MixedUnmixedLt_effectiveness_raw(ntu, cr)
      [] OTHER -> ShellAndTube_effectiveness_raw(ShellPasses(arrangement), ntu, cr)

effectiveness_via(arrangement, ntu, capacitance_rates) ==
    Bind([cr \in {CapacityRatio_from_capacitance_rates(capacitance_rates)} |->
    IF cr.panic THEN cr
    ELSE
    Bind([e \in {IF FEq(cr.v, 0)
         THEN Effectiveness_new(FSub(Num(1), Exp(FNeg(ntu))))
         ELSE Effectiveness_new(effectiveness_raw(arrangement, ntu, cr.v))} |->
    IF ~e.ok THEN Panic("ntu should always yield valid effectiveness")
    ELSE e])])

\* impl EffectivenessRelation: the arrangement's effectiveness method
EffectivenessRelation_effectiveness(arrangement, ntu, capacitance_rates) ==
    CASE arrangement = CrossFlowMixedUnmixed ->
             IF FGe(capacitance_rates[1], capacitance_rates[2])
             THEN effectiveness_via(MixedUnmixedGe, ntu, capacitance_rates)
             ELSE effectiveness_via(MixedUnmixedLt, ntu, capacitance_rates)
      [] arrangement = CrossFlowUnmixedMixed ->
             IF FGe(capacitance_rates[2], capacitance_rates[1])
             THEN effectiveness_via(MixedUnmixedGe, ntu,
                                    <<capacitance_rates[2], capacitance_rates[1]>>)
             ELSE effectiveness_via(MixedUnmixedLt, ntu,
                                    <<capacitance_rates[2], capacitance_rates[1]>>)
      [] OTHER -> effectiveness_via(arrangement, ntu, capacitance_rates)

\* The round trip of the arrangement tests: ntu(effectiveness(ntu, rates), rates)
roundtrip(arrangement, ntu, capacitance_rates) ==
    Bind([n \in {Ntu_new(ntu)} |->
    IF ~n.ok THEN n
    ELSE
    Bind([eff \in {EffectivenessRelation_effectiveness(arrangement, n.v, capacitance_rates)} |->
    IF ~eff.ok THEN eff
    ELSE NtuRelation_ntu(arrangement, eff.v, capacitance_rates)])])

\* ------------------------------------------------ functional analyzers

calculate_max_heat_flow(inlets) ==
    Bind([min_capacitance_rate \in {Fmin(inlets[1].capacitance_rate, inlets[2].capacitance_rate)} |->
    Bind([max_heat_flow \in {FMul(min_capacitance_rate, FSub(inlets[1].temperature, inlets[2].temperature))} |->
    IF IsNaN(max_heat_flow) THEN Panic("heat flow should not be NaN")
    ELSE IF FEq(max_heat_flow, 0)
    THEN Ok(<<with_heat_flow(inlets[1], HeatFlowNone),
              with_heat_flow(inlets[2], HeatFlowNone)>>)
    ELSE
    Bind([inc \in {incoming(FAbs(max_heat_flow))} |->
    Bind([out \in {outgoing(FAbs(max_heat_flow))} |->
    IF FLt(max_heat_flow, 0)
    THEN IF ~inc.ok THEN inc
         ELSE Ok(<<with_heat_flow(inlets[1], inc.v), with_heat_flow(inlets[2], out.v)>>)
    ELSE IF ~out.ok THEN out
         ELSE Ok(<<with_heat_flow(inlets[1], out.v), with_heat_flow(inlets[2], inc.v)>>)])])])])

KnownConditionsResult(streams, ua, ntu) == [streams |-> streams, ua |-> ua, ntu |-> ntu]

known_conditions_and_inlets_unguarded(arrangement, inlet0, stream1) ==
    LET capacitance_rates == <<inlet0.capacitance_rate, stream1.capacitance_rate>>
    IN  Bind([streams_with_max_heat \in {calculate_max_heat_flow(<<inlet0, StreamInlet_from(stream1)>>)} |->
        IF ~streams_with_max_heat.ok THEN streams_with_max_heat
        ELSE
        Bind([max_heat_flow_signed \in {HeatFlow_signed(streams_with_max_heat.v[1].heat_flow)} |->
        Bind([max_heat_flow \in {FAbs(max_heat_flow_signed)} |->
        Bind([actual_heat_flow \in {FAbs(HeatFlow_signed(stream1.heat_flow))} |->
        Bind([effectiveness \in {Effectiveness_new(FDiv(actual_heat_flow, max_heat_flow))} |->
        IF ~effectiveness.ok THEN effectiveness
        ELSE
        Bind([ntu \in {NtuRelation_ntu(arrangement, effectiveness.v, capacitance_rates)} |->
        IF ~ntu.ok THEN ntu
        ELSE
        Bind([flow0 \in {HeatFlow_from_signed(FMul(effectiveness.v, max_heat_flow_signed))} |->
        IF ~flow0.ok THEN flow0
        ELSE Ok(KnownConditionsResult(
                    <<with_heat_flow(inlet0, flow0.v), stream1>>,
                    FMul(ntu.v, Fmin(capacitance_rates[1], capacitance_rates[2])),
                    ntu.v))])])])])])])])

known_conditions_and_inlets(arrangement, inlet0, stream1) ==
    LET capacitance_rates == <<inlet0.capacitance_rate, stream1.capacitance_rate>>
    IN  Bind([streams_with_max_heat \in {calculate_max_heat_flow(<<inlet0, StreamInlet_from(stream1)>>)} |->
        IF ~streams_with_max_heat.ok THEN streams_with_max_heat
        ELSE
        Bind([max_heat_flow_signed \in {HeatFlow_signed(streams_with_max_heat.v[1].heat_flow)} |->
        Bind([max_heat_flow \in {FAbs(max_heat_flow_signed)} |->
        Bind([actual_heat_flow \in {FAbs(HeatFlow_signed(stream1.heat_flow))} |->
        IF FEq(max_heat_flow, 0)
        THEN IF ~FEq(actual_heat_flow, 0) THEN Err("AboveMaximum")
             ELSE Ok(KnownConditionsResult(
                         <<with_heat_flow(inlet0, HeatFlowNone), stream1>>, 0, 0))
        ELSE
        Bind([effectiveness \in {Effectiveness_new(FDiv(actual_heat_flow, max_heat_flow))} |->
        IF ~effectiveness.ok THEN effectiveness
        ELSE
        Bind([ntu \in {NtuRelation_ntu(arrangement, effectiveness.v, capacitance_rates)} |->
        IF ~ntu.ok THEN ntu
        ELSE
        Bind([flow0 \in {HeatFlow_from_signed(FMul(effectiveness.v, max_heat_flow_signed))} |->
        IF ~flow0.ok THEN flow0
        ELSE Ok(KnownConditionsResult(
                    <<with_heat_flow(inlet0, flow0.v), stream1>>,
                    FMul(ntu.v, Fmin(capacitance_rates[1], capacitance_rates[2])),
                    ntu.v))])])])])])])])

\* ---------------------------------------------------------- compute_ua

CapacitanceRate_from_quantity(quantity) == StrictlyPositive_check(quantity)

segment_violation_error_bottom_inlet(N, nodes, q_dot, segment_delta_t, segment_index, bottom_outlet_index) ==
    SecondLawViolation(Some(nodes.top[N - 1].temperature),
                       Some(nodes.bottom[N - 1 - bottom_outlet_index].temperature),
                       signed_top_to_bottom(q_dot),
                       segment_delta_t,
                       Some(segment_index))

segment_violation_error(N, nodes, q_dot, segment_delta_t, segment_index, bottom_outlet_index) ==
    SecondLawViolation(Some(nodes.top[N - 1].temperature),
                       Some(nodes.bottom[bottom_outlet_index].temperature),
                       signed_top_to_bottom(q_dot),
                       segment_delta_t,
                       Some(segment_index))

\* The conductance of segment i, between nodes i and i+1
SegmentUa(arrangement, N, m_dot_top, m_dot_bottom, q_dot, nodes, i) ==
    LET bottom_outlet_index == bottom_select(arrangement, N - 1, 0)
        top_in == nodes.top[i]
        top_out == nodes.top[i + 1]
        h_top_in == nodes.top_enthalpies[i]
        h_top_out == nodes.top_enthalpies[i + 1]
        bottom_in == bottom_select(arrangement, nodes.bottom[i], nodes.bottom[i + 1])
        bottom_out == bottom_select(arrangement, nodes.bottom[i + 1], nodes.bottom[i])
        h_bottom_in == bottom_select(arrangement, nodes.bottom_enthalpies[i],
                                     nodes.bottom_enthalpies[i + 1])
        h_bottom_out == bottom_select(arrangement, nodes.bottom_enthalpies[i + 1],
                                      nodes.bottom_enthalpies[i])
        segment_delta_t_top_to_bottom == FSub(top_in.temperature, bottom_in.temperature)
        segment_delta_t_bottom_to_top == FSub(bottom_in.temperature, top_in.temperature)
        segment_delta_t_hot_cold ==
            IF q_dot.dir = "BottomToTop" THEN segment_delta_t_bottom_to_top
            ELSE segment_delta_t_top_to_bottom
        top_delta_t == FSub(top_out.temperature, top_in.temperature)
        top_delta_h == FSub(h_top_out, h_top_in)
        bottom_delta_t == FSub(bottom_out.temperature, bottom_in.temperature)
        bottom_delta_h == FSub(h_bottom_out, h_bottom_in)
    IN  Bind([c_dot_top \in {CapacitanceRate_from_quantity(
                 FDiv(FMul(m_dot_top, top_delta_h), top_delta_t))} |->
        IF ~c_dot_top.ok
        THEN Err(segment_violation_error(N, nodes, q_dot, segment_delta_t_top_to_bottom,
                                         i, bottom_outlet_index))
        ELSE
        Bind([c_dot_bottom \in {CapacitanceRate_from_quantity(
                 FDiv(FMul(m_dot_bottom, bottom_delta_h), bottom_delta_t))} |->
        IF ~c_dot_bottom.ok
        THEN Err(segment_violation_error(N, nodes, q_dot, segment_delta_t_bottom_to_top,
                                         i, bottom_outlet_index))
        ELSE
        Bind([stream \in {new_from_outlet_temperature(c_dot_bottom.v, bottom_in.temperature,
                                         bottom_out.temperature)} |->
        IF stream.panic THEN stream
        ELSE
        Bind([r \in {known_conditions_and_inlets(arrangement,
                 StreamInlet(c_dot_top.v, top_in.temperature), stream.v)} |->
        IF r.panic THEN r
        ELSE IF ~r.ok
        THEN Err(segment_violation_error(N, nodes, q_dot, segment_delta_t_hot_cold,
                                         i, bottom_outlet_index))
        ELSE Ok(r.v.ua)])])])])

\* The loop of compute_ua over segments 0..k-1
RECURSIVE ComputeUaLoop(_, _, _, _, _, _, _)
ComputeUaLoop(arrangement, N, m_dot_top, m_dot_bottom, q_dot, nodes, k) ==
    IF k = 0 THEN Ok(0)
    ELSE Bind([prev \in {ComputeUaLoop(arrangement, N, m_dot_top, m_dot_bottom, q_dot, nodes, k - 1)} |->
         IF ~prev.ok THEN prev
         ELSE
         Bind([ua \in {SegmentUa(arrangement, N, m_dot_top, m_dot_bottom, q_dot, nodes, k - 1)} |->
         IF ~ua.ok THEN ua
         ELSE Ok(FAdd(prev.v, ua.v))])])

compute_ua(arrangement, N, m_dot_top, m_dot_bottom, q_dot, nodes) ==
    IF q_dot.dir = "None" THEN Ok(0)
    ELSE ComputeUaLoop(arrangement, N, m_dot_top, m_dot_bottom, q_dot, nodes, N - 1)

\* --------------------------------------------------------------- solve

Results(top, bottom, q_dot, ua, min_delta_t) ==
    [top |-> top, bottom |-> bottom, q_dot |-> q_dot, ua |-> ua,
     min_delta_t |-> min_delta_t]

\* A stage of the pipeline that was not reached
NoValue == [ok |-> FALSE, panic |-> FALSE, v |-> "none"]

\* The stages of solve in the order of the calls
Pipeline ==
    <<"Resolved::new", "compute_node_arrays", "build_node_states", "compute_min_delta_t",
      "check_second_law", "compute_ua", "Results">>

\* The stages that ran when the k-th stage was the last one
RanThrough(k) == SubSeq(Pipeline, 1, k)

SolveStages_ua_despite_law(arrangement, N, known, given, th) ==
    Bind([resolved \in {Resolved_new(known, given, th)} |->
    IF ~resolved.ok
    THEN [resolved |-> resolved, nodes |-> NoValue, result |-> resolved,
          stages |-> RanThrough(1)]
    ELSE
    Bind([nodes \in {Nodes_new(arrangement, N, resolved.v, th)} |->
    IF ~nodes.ok
    THEN [resolved |-> resolved, nodes |-> nodes, result |-> nodes,
          stages |-> RanThrough(3)]
    ELSE
    Bind([min_delta_t \in {compute_min_delta_t(arrangement, N, nodes.v)} |->
    Bind([law \in {check_second_law(resolved.v, min_delta_t)} |->
    Bind([ua \in {compute_ua(arrangement, N, resolved.v.top.m_dot, resolved.v.bottom.m_dot,
                    resolved.v.q_dot, nodes.v)} |->
    [resolved |-> resolved,
     nodes |-> nodes,
     result |->
         IF ~law.ok THEN law
         ELSE IF ~ua.ok THEN ua
         ELSE Ok(Results(nodes.v.top, nodes.v.bottom, resolved.v.q_dot, ua.v,
                         min_delta_t)),
     stages |-> IF law.ok /\ ua.ok THEN RanThrough(7) ELSE RanThrough(6)]])])])])])

\* The stages of solve: the resolved endpoints, the node arrays, the
\* returned result, and the stages that ran
SolveStages(arrangement, N, known, given, th) ==
    Bind([resolved \in {Resolved_new(known, given, th)} |->
    IF ~resolved.ok
    THEN [resolved |-> resolved, nodes |-> NoValue, result |-> resolved,
          stages |-> RanThrough(1)]
    ELSE
    Bind([nodes \in {Nodes_new(arrangement, N, resolved.v, th)} |->
    IF ~nodes.ok
    THEN [resolved |-> resolved, nodes |-> nodes, result |-> nodes,
          stages |-> RanThrough(3)]
    ELSE
    Bind([min_delta_t \in {compute_min_delta_t(arrangement, N, nodes.v)} |->
    Bind([law \in {check_second_law(resolved.v, min_delta_t)} |->
    IF ~law.ok
    THEN [resolved |-> resolved, nodes |-> nodes, result |-> law,
          stages |-> RanThrough(5)]
    ELSE
    Bind([ua \in {compute_ua(arrangement, N, resolved.v.top.m_dot, resolved.v.bottom.m_dot,
                    resolved.v.q_dot, nodes.v)} |->
    [resolved |-> resolved,
     nodes |-> nodes,
     result |->
         IF ~ua.ok THEN ua
         ELSE Ok(Results(nodes.v.top, nodes.v.bottom, resolved.v.q_dot, ua.v,
                         min_delta_t)),
     stages |-> IF ua.ok THEN RanThrough(7) ELSE RanThrough(6)]])])])])])

solve(arrangement, N, known, given, th) ==
    SolveStages(arrangement, N, known, given, th).result

\* ------------------------------------------- what a solve does on its way
\* The thermo calls a solve issues, the slots build_states writes, and the
\* segments compute_ua evaluates, each in the order of the code.

ThermoCall(call, target, node, outcome) ==
    [call |-> call, target |-> target, node |-> node, outcome |-> outcome]

\* A `?` after each call: the calls up to and including the first failing one
UntilFailure(calls) ==
    IF \A k \in DOMAIN calls : calls[k].outcome.ok THEN calls
    ELSE SubSeq(calls, 1, SetMin({k \in DOMAIN calls : ~calls[k].outcome.ok}))

from_known_calls(known, th) ==
    UntilFailure(<<ThermoCall("pressure", "top inlet", NoNode, pressure(th, known.top_in)),
                   ThermoCall("pressure", "bottom inlet", NoNode, pressure(th, known.bottom_in)),
                   ThermoCall("enthalpy", "top inlet", NoNode, enthalpy(th, known.top_in)),
                   ThermoCall("enthalpy", "bottom inlet", NoNode, enthalpy(th, known.bottom_in))>>)

resolve_from_top_outlet_calls(ctx, t_out, th) ==
    Bind([top_out \in {state_from_TP(th, t_out, ctx.top.p_out)} |->
    Bind([c1 \in {ThermoCall("state_from", "top outlet", NoNode, top_out)} |->
    IF ~top_out.ok THEN <<c1>>
    ELSE
    Bind([h_top_out \in {enthalpy(th, top_out.v)} |->
    Bind([c2 \in {ThermoCall("enthalpy", "top outlet", NoNode, h_top_out)} |->
    IF ~h_top_out.ok THEN <<c1, c2>>
    ELSE
    Bind([q_signed \in {FMul(ctx.top.m_dot, FSub(ctx.top.h_in, h_top_out.v))} |->
    IF ~heat_transfer_rate_from_signed(ctx.top.inlet.temperature,
            ctx.bottom.inlet.temperature, Some(top_out.v.temperature), None, q_signed).ok
    THEN <<c1, c2>>
    ELSE <<c1, c2,
           ThermoCall("state_from", "bottom outlet", NoNode,
                      state_from_PH(th, ctx.bottom.p_out,
                          bottom_outlet_enthalpy(ctx.bottom.h_in, q_signed,
                                                 ctx.bottom.m_dot)))>>])])])])])

resolve_from_bottom_outlet_calls(ctx, t_out, th) ==
    Bind([bottom_out \in {state_from_TP(th, t_out, ctx.bottom.p_out)} |->
    Bind([c1 \in {ThermoCall("state_from", "bottom outlet", NoNode, bottom_out)} |->
    IF ~bottom_out.ok THEN <<c1>>
    ELSE
    Bind([h_bottom_out \in {enthalpy(th, bottom_out.v)} |->
    Bind([c2 \in {ThermoCall("enthalpy", "bottom outlet", NoNode, h_bottom_out)} |->
    IF ~h_bottom_out.ok THEN <<c1, c2>>
    ELSE
    Bind([q_signed \in {FMul(ctx.bottom.m_dot, FSub(h_bottom_out.v, ctx.bottom.h_in))} |->
    IF ~heat_transfer_rate_from_signed(ctx.top.inlet.temperature,
            ctx.bottom.inlet.temperature, None, Some(bottom_out.v.temperature), q_signed).ok
    THEN <<c1, c2>>
    ELSE <<c1, c2,
           ThermoCall("state_from", "top outlet", NoNode,
                      state_from_PH(th, ctx.top.p_out,
                          top_outlet_enthalpy(ctx.top.h_in, q_signed, ctx.top.m_dot)))>>])])])])])

resolve_from_heat_transfer_rate_calls(ctx, q_dot, th) ==
    Bind([q_signed \in {signed_top_to_bottom(q_dot)} |->
    UntilFailure(<<ThermoCall("state_from", "top outlet", NoNode,
                       state_from_PH(th, ctx.top.p_out,
                           top_outlet_enthalpy(ctx.top.h_in, q_signed, ctx.top.m_dot))),
                   ThermoCall("state_from", "bottom outlet", NoNode,
                       state_from_PH(th, ctx.bottom.p_out,
                           bottom_outlet_enthalpy(ctx.bottom.h_in, q_signed,
                                                  ctx.bottom.m_dot)))>>)])

Resolved_new_calls(known, given, th) ==
    Bind([context \in {from_known(known, th)} |->
    from_known_calls(known, th) \o
    (IF ~context.ok THEN <<>>
     ELSE CASE given.kind = "TopOutletTemp" ->
                   resolve_from_top_outlet_calls(context.v, given.t, th)
            [] given.kind = "BottomOutletTemp" ->
                   resolve_from_bottom_outlet_calls(context.v, given.t, th)
            [] OTHER ->
                   resolve_from_heat_transfer_rate_calls(context.v, given.q, th))])

\* The loop of build_states: one state_from per interior node, in ascending
\* order, up to and including the first one that fails
build_states_calls_all_nodes(th, N, side, pressures, enthalpies) ==
    UntilFailure([k \in 1..N |->
        ThermoCall("state_from", side, k - 1,
                   state_from_PH(th, pressures[k - 1], enthalpies[k - 1]))])

build_states_calls(th, N, side, pressures, enthalpies) ==
    UntilFailure([k \in 1..(N - 2) |->
        ThermoCall("state_from", side, k,
                   state_from_PH(th, pressures[k], enthalpies[k]))])

\* The slots of the uninitialized array build_states writes, in order, and
\* whether it goes on to read the array as initialized
build_states_slots_outlet_skipped(th, N, pressures, enthalpies, inlet_at_start) ==
    Bind([failing \in {FailingNodes(th, N, pressures, enthalpies)} |->
    [writes |-> <<IF inlet_at_start THEN 0 ELSE N - 1>>
                \o [k \in 1..(IF failing = {} THEN N - 2 ELSE SetMin(failing) - 1) |-> k],
     read |-> failing = {}]])

build_states_slots(th, N, pressures, enthalpies, inlet_at_start) ==
    Bind([failing \in {FailingNodes(th, N, pressures, enthalpies)} |->
    [writes |-> <<IF inlet_at_start THEN 0 ELSE N - 1, IF inlet_at_start THEN N - 1 ELSE 0>>
                \o [k \in 1..(IF failing = {} THEN N - 2 ELSE SetMin(failing) - 1) |-> k],
     read |-> failing = {}]])

\* build_node_states: the top stream, then, if that succeeded, the bottom one
build_node_states_observed(arrangement, N, resolved, th, arrays) ==
    Bind([top_ok \in {FailingNodes(th, N, arrays.top_pressures, arrays.top_enthalpies) = {}} |->
    [calls |->
         build_states_calls(th, N, "top node", arrays.top_pressures, arrays.top_enthalpies)
         \o (IF ~top_ok THEN <<>>
             ELSE build_states_calls(th, N, "bottom node", arrays.bottom_pressures,
                                     arrays.bottom_enthalpies)),
     slots |->
         <<build_states_slots(th, N, arrays.top_pressures, arrays.top_enthalpies, TRUE)>>
         \o (IF ~top_ok THEN <<>>
             ELSE <<build_states_slots(th, N, arrays.bottom_pressures,
                        arrays.bottom_enthalpies,
                        bottom_select(arrangement, TRUE, FALSE))>>)]])

Nodes_new_observed(arrangement, N, resolved, th) ==
    Bind([arrays \in {compute_node_arrays(arrangement, N, resolved,
                          signed_top_to_bottom(resolved.q_dot))} |->
    build_node_states_observed(arrangement, N, resolved, th, arrays)])

\* The segments the loop of compute_ua enters from segment i on, in order:
\* the loop goes on to segment i + 1 only if segment i yields a conductance
RECURSIVE ComputeUaSegments(_, _, _, _, _, _, _)
ComputeUaSegments(arrangement, N, m_dot_top, m_dot_bottom, q_dot, nodes, i) ==
    IF i > N - 2 THEN <<>>
    ELSE IF SegmentUa(arrangement, N, m_dot_top, m_dot_bottom, q_dot, nodes, i).ok
    THEN <<i>> \o ComputeUaSegments(arrangement, N, m_dot_top, m_dot_bottom, q_dot, nodes, i + 1)
    ELSE <<i>>

compute_ua_segments_all(arrangement, N, m_dot_top, m_dot_bottom, q_dot, nodes) ==
    IF q_dot.dir = "None" THEN <<>> ELSE [k \in 1..(N - 1) |-> k - 1]

compute_ua_segments(arrangement, N, m_dot_top, m_dot_bottom, q_dot, nodes) ==
    IF q_dot.dir = "None" THEN <<>>
    ELSE ComputeUaSegments(arrangement, N, m_dot_top, m_dot_bottom, q_dot, nodes, 0)

NoTrace == [calls |-> <<>>, slots |-> <<>>, segments |-> <<>>, ops |-> <<>>]

\* What one solve does, given the stages s it went through
solve_trace(s, arrangement, N, known, given, th) ==
    Bind([observed \in {IF s.resolved.ok
                        THEN Nodes_new_observed(arrangement, N, s.resolved.v, th)
                        ELSE [calls |-> <<>>, slots |-> <<>>]} |->
    [calls |-> Resolved_new_calls(known, given, th) \o observed.calls,
     slots |-> observed.slots,
     segments |->
         IF Len(s.stages) >= 6
         THEN compute_ua_segments(arrangement, N, s.resolved.v.top.m_dot,
                                  s.resolved.v.bottom.m_dot, s.resolved.v.q_dot, s.nodes.v)
         ELSE <<>>,
     ops |-> <<>>]])

\* ------------------------------------------------------------ given_ua

\* GivenUaConfig and its conversion into the bisection configuration
GivenUaConfig(max_iters, temp_tol, ua_tol) ==
    [max_iters |-> max_iters, temp_tol |-> temp_tol, ua_tol |-> ua_tol]

GivenUaConfig_bisection(config) ==
    [max_iters |-> config.max_iters, x_abs_tol |-> config.temp_tol,
     x_rel_tol |-> 0, residual_tol |-> config.ua_tol]

TopOutletTemp(t) == [kind |-> "TopOutletTemp", t |-> t, q |-> HtrNone]
NoHeatTransfer == [kind |-> "HeatTransferRate", t |-> 0, q |-> HtrNone]

\* GivenUaModel::call: the inner solve at a candidate top outlet temperature
GivenUaModel_call(arrangement, N, known, th, x) ==
    solve(arrangement, N, known, TopOutletTemp(x), th)

residuals_ignoring_target(target_ua, output) == output.ua

\* GivenUaProblem::residuals: achieved ua - target ua
residuals(target_ua, output) == FSub(output.ua, target_ua)

GivenUaError_Solve(e) == [kind |-> "Solve", source |-> e]
GivenUaError_Bisection(e) == [kind |-> "Bisection", source |-> e]
GivenUaError_MaxIters(residual, iters) ==
    [kind |-> "MaxIters", residual |-> residual, iters |-> iters]

\* The event hook given_ua passes to the bisection
AssumePositive == "assume_positive"
NoOverride == "no_override"

event_hook_never_overrides(event_result) == NoOverride

event_hook(event_result) ==
    IF ~event_result.ok THEN AssumePositive ELSE NoOverride

\* The target_ua = 0 branch of given_ua: solve with no heat transfer, a
\* SolveError converted by `?` into GivenUaError::Solve
given_ua_zero_unconverted(r) == r

given_ua_zero(r) ==
    IF r.ok \/ r.panic THEN r ELSE Err(GivenUaError_Solve(r.v))

\* --- the bisection collaborator

\* One evaluation of a candidate x: the model call, the event handed to the
\* hook, the residual of a successful output, and the sign the search uses
Evaluation(x, r, action, target_ua) ==
    Bind([res \in {IF r.ok THEN residuals(target_ua, r.v) ELSE NaN} |->
    [x |-> x, result |-> r, action |-> action, residual |-> res,
     sign |-> IF action = AssumePositive THEN "pos"
              ELSE IF ~r.ok THEN "err"
              ELSE IF IsNaN(res) THEN "nan"
              ELSE IF FGt(res, 0) THEN "pos"
              ELSE IF FLt(res, 0) THEN "neg"
              ELSE "zero"]])

NoBest == [some |-> FALSE, output |-> "none", residual |-> NaN, x |-> NaN]

\* The best evaluation so far: the successful output of least |residual|
Better(best, ev) ==
    IF /\ ev.result.ok
       /\ ev.action = NoOverride
       /\ ~IsNaN(ev.residual)
       /\ (~best.some \/ FLt(FAbs(ev.residual), FAbs(best.residual)))
    THEN [some |-> TRUE, output |-> ev.result.v, residual |-> ev.residual, x |-> ev.x]
    ELSE best

Endpoint(x, sign) == [x |-> x, sign |-> sign]

\* Both tolerances met
Converged(cfg, lo, hi, best) ==
    /\ best.some
    /\ FLe(FAbs(FSub(hi.x, lo.x)),
           FAdd(cfg.x_abs_tol, FMul(cfg.x_rel_tol, FAbs(lo.x))))
    /\ FLe(FAbs(best.residual), cfg.residual_tol)

Midpoint(lo, hi) == FAdd(lo.x, FDiv(FSub(hi.x, lo.x), Num(2)))

EventOf(ev) == [x |-> ev.x, is_err |-> ~ev.result.ok, action |-> ev.action]

\* The state of a search after its status is settled from the bracket, the
\* best evaluation and the iteration count
Settle(cfg, s) ==
    [s EXCEPT !.status =
        IF Converged(cfg, s.lo, s.hi, s.best) THEN "Converged"
        ELSE IF s.iters >= cfg.max_iters THEN "NotConverged"
        ELSE "Running"]

Failed(s, error) == [s EXCEPT !.status = "Error", !.error = error]

NoSearch ==
    [status |-> "Idle", lo |-> Endpoint(NaN, "none"), hi |-> Endpoint(NaN, "none"),
     iters |-> 0, best |-> NoBest, events |-> <<>>, error |-> "none"]

Panicked(s, message) == [s EXCEPT !.status = "Panic", !.error = message]

ModelError(e) == [kind |-> "Model", source |-> e]
NonFiniteResidual == [kind |-> "NonFiniteResidual", source |-> "none"]
NoSignChange == [kind |-> "NoSignChange", source |-> "none"]

\* The model and the problem a search runs on
UaModel(arrangement, N, known, th, target_ua) ==
    [arrangement |-> arrangement, N |-> N, known |-> known, th |-> th,
     target_ua |-> target_ua]

Evaluate(m, x) ==
    Bind([r \in {GivenUaModel_call(m.arrangement, m.N, m.known, m.th, x)} |->
    Evaluation(x, r, event_hook(r), m.target_ua)])

Observed(s, ev) ==
    [s EXCEPT !.events = Append(@, EventOf(ev)), !.best = Better(@, ev)]

\* The evaluation of the two ends of the initial bracket [a, b]
bisection_start(cfg, m, a, b) ==
    Bind([s0 \in {[NoSearch EXCEPT !.status = "Running"]} |->
    Bind([e1 \in {Evaluate(m, a)} |->
    IF e1.result.panic THEN Panicked(s0, e1.result.v)
    ELSE
    Bind([s1 \in {[Observed(s0, e1) EXCEPT !.lo = Endpoint(a, e1.sign)]} |->
    IF e1.sign = "err" THEN Failed(s1, ModelError(e1.result.v))
    ELSE IF e1.sign = "nan" THEN Failed(s1, NonFiniteResidual)
    ELSE
    Bind([e2 \in {Evaluate(m, b)} |->
    IF e2.result.panic THEN Panicked(s1, e2.result.v)
    ELSE
    Bind([s2 \in {[Observed(s1, e2) EXCEPT !.hi = Endpoint(b, e2.sign)]} |->
    IF e2.sign = "err" THEN Failed(s2, ModelError(e2.result.v))
    ELSE IF e2.sign = "nan" THEN Failed(s2, NonFiniteResidual)
    ELSE IF e1.sign = "zero" THEN Settle(cfg, [s2 EXCEPT !.hi = s2.lo])
    ELSE IF e2.sign = "zero" THEN Settle(cfg, [s2 EXCEPT !.lo = s2.hi])
    ELSE IF e1.sign = e2.sign THEN Failed(s2, NoSignChange)
    ELSE Settle(cfg, s2)])])])])])

\* One iteration: evaluate the midpoint and halve the bracket
bisection_step(cfg, m, s) ==
    Bind([x \in {Midpoint(s.lo, s.hi)} |->
    Bind([ev \in {Evaluate(m, x)} |->
    IF ev.result.panic THEN Panicked(s, ev.result.v)
    ELSE
    Bind([s1 \in {[Observed(s, ev) EXCEPT !.iters = @ + 1]} |->
    Bind([mid \in {Endpoint(x, ev.sign)} |->
    IF ev.sign = "err" THEN Failed(s1, ModelError(ev.result.v))
    ELSE IF ev.sign = "nan" THEN Failed(s1, NonFiniteResidual)
    ELSE IF ev.sign = "zero" THEN Settle(cfg, [s1 EXCEPT !.lo = mid, !.hi = mid])
    ELSE IF ev.sign = s.lo.sign THEN Settle(cfg, [s1 EXCEPT !.lo = mid])
    ELSE Settle(cfg, [s1 EXCEPT !.hi = mid])])])])])

given_ua_return_ignoring_status(s) ==
    IF s.status = "Panic" THEN Panic(s.error)
    ELSE IF s.status = "Error" THEN Err(GivenUaError_Bisection(s.error))
    ELSE Ok(s.best.output)

\* What given_ua makes of the end of the search
given_ua_return(s) ==
    IF s.status = "Panic" THEN Panic(s.error)
    ELSE IF s.status = "Error" THEN Err(GivenUaError_Bisection(s.error))
    ELSE IF s.status # "Converged"
    THEN Err(GivenUaError_MaxIters(s.best.residual, s.iters))
    ELSE Ok(s.best.output)

\* ----------------------------------------------------------- MassFlows

MassFlows(top, bottom) == [top |-> top, bottom |-> bottom]

MassFlows_from_constrained(top, bottom) == MassFlows(into_inner(top), into_inner(bottom))

MassFlows_new(top, bottom) ==
    Bind([t \in {Constrained_new("StrictlyPositive", top)} |->
    IF ~t.ok THEN t
    ELSE
    Bind([b \in {Constrained_new("StrictlyPositive", bottom)} |->
    IF ~b.ok THEN b
    ELSE Ok(MassFlows_from_constrained(t.v, b.v))])])

MassFlows_new_unchecked(top, bottom) == Ok(MassFlows(top, bottom))

\* -------------------------------------------------------- ShellAndTube

U16Max == 65535

\* u16 multiplication by 2; the guard on S keeps it from wrapping
TwiceU16(S) == (2 * S) % (U16Max + 1)

\* u16::is_multiple_of: zero is a multiple of zero only
is_multiple_of(T, rhs) == IF rhs = 0 THEN T = 0 ELSE T % rhs = 0

ShellAndTube_validate_unguarded(S, T) ==
    IF S = 0 THEN Err("ZeroShellPasses")
    ELSE IF T < TwiceU16(S) THEN Err("InsufficientTubePasses")
    ELSE IF ~is_multiple_of(T, TwiceU16(S)) THEN Err("TubePassesNotMultiple")
    ELSE Ok(TRUE)

ShellAndTube_validate(S, T) ==
    IF S = 0 THEN Err("ZeroShellPasses")
    ELSE IF S > U16Max \div 2 THEN Err("ShellPassOverflow")
    ELSE IF T < TwiceU16(S) THEN Err("InsufficientTubePasses")
    ELSE IF ~is_multiple_of(T, TwiceU16(S)) THEN Err("TubePassesNotMultiple")
    ELSE Ok(TRUE)

\* The u16 multiplications and remainders validate evaluates, in order
U16Op(op, a, b) == [op |-> op, a |-> a, b |-> b]

ShellAndTube_validate_ops_unguarded(S, T) ==
    IF S = 0 THEN <<>>
    ELSE IF T < TwiceU16(S) THEN <<U16Op("mul", 2, S)>>
    ELSE IF TwiceU16(S) = 0 THEN <<U16Op("mul", 2, S), U16Op("mul", 2, S)>>
    ELSE <<U16Op("mul", 2, S), U16Op("mul", 2, S), U16Op("rem", T, TwiceU16(S))>>

ShellAndTube_validate_ops(S, T) ==
    IF S = 0 THEN <<>>
    ELSE IF S > U16Max \div 2 THEN <<>>
    ELSE IF T < TwiceU16(S) THEN <<U16Op("mul", 2, S)>>
    ELSE IF TwiceU16(S) = 0 THEN <<U16Op("mul", 2, S), U16Op("mul", 2, S)>>
    ELSE <<U16Op("mul", 2, S), U16Op("mul", 2, S), U16Op("rem", T, TwiceU16(S))>>

ShellAndTube_new_unvalidated(S, T) == Ok([S |-> S, T |-> T])

ShellAndTube_new(S, T) ==
    Bind([v \in {ShellAndTube_validate(S, T)} |->
    IF ~v.ok THEN v ELSE Ok([S |-> S, T |-> T])])

\* ------------------------------------------------------------- inputs

MaxNodes == 3
MaxFlow == 2
MaxTemp == 2

\* Temperatures 2.0, 4.0, ... on a grid, a hot 8.0, and NaN
GridTemps == {Num(2 * k) : k \in 1..MaxTemp} \cup {Num(8)}
InletTemps == GridTemps \cup {NaN}
\* Requested outlet temperatures: the grid, an off-grid value and NaN
OutletTemps == GridTemps \cup {Num(5) + 1, NaN}

\* Mass flow rates as MassFlows::new accepts them (strictly positive)
MassRates == {Num(k) : k \in 1..MaxFlow}

\* The smallest positive power: divided by a larger mass flow rate it changes
\* an enthalpy by less than the enthalpy's resolution
TinyPower == 1

\* Power payloads of a HeatTransferRate variant: the variants are public
\* tuple variants, so a payload is any f64
Powers == {Num(1), Num(3) + 1, FNeg(Num(2)), TinyPower}

Givens ==
    {[kind |-> "TopOutletTemp", t |-> t, q |-> HtrNone] : t \in OutletTemps}
    \cup {[kind |-> "BottomOutletTemp", t |-> t, q |-> HtrNone] : t \in OutletTemps}
    \cup {[kind |-> "HeatTransferRate", t |-> 0, q |-> TopToBottom(p)] : p \in Powers}
    \cup {[kind |-> "HeatTransferRate", t |-> 0, q |-> BottomToTop(p)] : p \in Powers}
    \cup {[kind |-> "HeatTransferRate", t |-> 0, q |-> HtrNone]}

\* Thermo models: the test model, the test model with a bounded domain, a
\* perfect-gas-like model, a real-fluid model whose enthalpy depends on
\* pressure, and the test model with an enthalpy property of bounded domain
ThermoModels ==
    {[cp |-> Num(1), jt |-> 0, pconst |-> TRUE, tmax |-> PInf, hmax |-> PInf,
      hole |-> NoHole],
     [cp |-> Num(2), jt |-> 0, pconst |-> TRUE, tmax |-> Num(5), hmax |-> PInf,
      hole |-> NoHole],
     [cp |-> Num(1), jt |-> 0, pconst |-> FALSE, tmax |-> PInf, hmax |-> PInf,
      hole |-> NoHole],
     [cp |-> Num(1), jt |-> Num(1), pconst |-> FALSE, tmax |-> PInf, hmax |-> PInf,
      hole |-> NoHole],
     [cp |-> Num(1), jt |-> 0, pconst |-> TRUE, tmax |-> PInf, hmax |-> Num(5),
      hole |-> NoHole]}

\* The density coordinate of the supplied inlet states, and the pressure drops
InletDensity == Num(3)
PressureDrops == {0, Num(1)}

Knowns ==
    {[top_in |-> State(tt, InletDensity), bottom_in |-> State(tb, InletDensity),
      m_top |-> mt, m_bottom |-> mb, dp_top |-> dp, dp_bottom |-> dp] :
        tt \in InletTemps, tb \in InletTemps,
        mt \in MassRates, mb \in MassRates, dp \in PressureDrops}

Arrangements == {CounterFlow, ParallelFlow}
NodeCounts == 2..MaxNodes

\* Inputs for the node-by-node steps of a solve: more nodes, no pressure
\* drop, and the test model beside a model with a hole in its domain
MaxDeepNodes == 4
DeepNodeCounts == 2..MaxDeepNodes
DeepKnowns == {k \in Knowns : k.dp_top = 0}
DeepThermoModels ==
    {[cp |-> Num(1), jt |-> 0, pconst |-> TRUE, tmax |-> PInf, hmax |-> PInf,
      hole |-> NoHole],
     [cp |-> Num(1), jt |-> 0, pconst |-> TRUE, tmax |-> PInf, hmax |-> PInf,
      hole |-> [lo |-> Num(3), hi |-> Num(5)]]}

\* ------------------------------------------------------- state machine

VARIABLES pc, input, resolved, nodes, result, search, stages, trace

vars == <<pc, input, resolved, nodes, result, search, stages, trace>>

Init ==
    /\ pc = "ready"
    /\ input \in [arrangement : Arrangements, N : NodeCounts, known : Knowns,
                  given : Givens, th : ThermoModels]
    /\ resolved = NoValue
    /\ nodes = NoValue
    /\ result = NoValue
    /\ search = NoSearch
    /\ stages = <<>>
    /\ trace = NoTrace

\* DiscretizedHx::solve: the whole pipeline on the drawn input.  The
\* resolved endpoints and the node arrays are kept beside the result.
Solve ==
    /\ pc = "ready"
    /\ \E s \in {SolveStages(input.arrangement, input.N, input.known, input.given,
                             input.th)} :
           /\ resolved' = s.resolved
           /\ nodes' = s.nodes
           /\ result' = s.result
           /\ stages' = s.stages
           /\ trace' = solve_trace(s, input.arrangement, input.N, input.known, input.given,
                                   input.th)
    /\ pc' = "done"
    /\ UNCHANGED <<input, search>>

Next == Solve

Spec == Init /\ [][Next]_vars

\* The same solve on the inputs for the node-by-node steps
InitNodes ==
    /\ pc = "ready"
    /\ input \in [arrangement : Arrangements, N : DeepNodeCounts, known : DeepKnowns,
                  given : Givens, th : DeepThermoModels]
    /\ resolved = NoValue
    /\ nodes = NoValue
    /\ result = NoValue
    /\ search = NoSearch
    /\ stages = <<>>
    /\ trace = NoTrace

SpecNodes == InitNodes /\ [][Next]_vars

\* ------------------------------------------------------- solve claims

Done == pc = "done"
SolvedOk == Done /\ result.ok
IsSecondLawViolation(r) == ~r.ok /\ ~r.panic /\ r.v.kind = "SecondLawViolation"
IsThermoModelFailed(r) == ~r.ok /\ ~r.panic /\ r.v.kind = "ThermoModelFailed"

TopInletTemp == input.known.top_in.temperature
BottomInletTemp == input.known.bottom_in.temperature

Sign(x) == IF FGt(x, 0) THEN 1 ELSE IF FLt(x, 0) THEN 0 - 1 ELSE 0

\* C1: every Ok result of solve whose q_dot is not None has the sign of
\* q_dot.signed_top_to_bottom() equal to the sign of T_top_in - T_bot_in,
\* and min_delta_t.value >= 0.
C1_OkSolveObeysSecondLaw ==
    SolvedOk /\ result.v.q_dot.dir # "None" =>
        /\ Sign(signed_top_to_bottom(result.v.q_dot))
               = Sign(FSub(TopInletTemp, BottomInletTemp))
        /\ FGe(result.v.min_delta_t.value, 0)

\* The two sides of the energy balance of a successful resolution, and the
\* signed heat transfer rate
TopSideHeat ==
    FMul(resolved.v.top.m_dot, FSub(resolved.v.top.h_in, resolved.v.h_top_out))
BottomSideHeat ==
    FMul(resolved.v.bottom.m_dot, FSub(resolved.v.h_bottom_out, resolved.v.bottom.h_in))
ResolvedHeat == signed_top_to_bottom(resolved.v.q_dot)

ResolvedFinite ==
    /\ Done /\ resolved.ok
    /\ IsFinite(TopSideHeat) /\ IsFinite(BottomSideHeat) /\ IsFinite(ResolvedHeat)
    /\ IsFinite(resolved.v.h_top_out) /\ IsFinite(resolved.v.h_bottom_out)

\* C2 as stated: for every Given variant a successful resolution has
\* m_top * (h_top_in - h_top_out) = m_bot * (h_bot_out - h_bot_in) = q_dot
\* exactly (taken on finite values).
C2_EnergyBalanceExact ==
    ResolvedFinite => TopSideHeat = ResolvedHeat /\ BottomSideHeat = ResolvedHeat

\* C2, amended: on finite values each side of the energy balance agrees
\* with q_dot.signed_top_to_bottom() to within the rounding of the
\* division by the mass flow rate: at most one unit in the last place per
\* unit of mass flow rate.
C2_EnergyBalanceWithinRounding ==
    ResolvedFinite =>
        /\ IAbs(TopSideHeat - ResolvedHeat) * Scale <= resolved.v.top.m_dot
        /\ IAbs(BottomSideHeat - ResolvedHeat) * Scale <= resolved.v.bottom.m_dot

\* A resolution from a top outlet temperature whose bottom side closes
\* only to within rounding
C2_Witness ==
    /\ ResolvedFinite
    /\ input.given.kind = "TopOutletTemp"
    /\ ResolvedHeat # 0
    /\ TopSideHeat = ResolvedHeat
    /\ BottomSideHeat # ResolvedHeat

\* C3: in the node arrays of a successful discretization top[0] is the
\* resolved top inlet state and top[N-1] the resolved top outlet state;
\* for CounterFlow bottom[N-1] is the resolved bottom inlet and bottom[0]
\* the resolved bottom outlet; for ParallelFlow bottom[0] is the inlet and
\* bottom[N-1] the outlet.  The entries are the resolved states themselves
\* (the inlets being the supplied inlet states), not states recomputed
\* from (P, h).
C3_EndpointsAreResolvedStates ==
    Done /\ nodes.ok =>
        LET N == input.N
            n == nodes.v
            r == resolved.v
        IN  /\ r.top.inlet = input.known.top_in
            /\ r.bottom.inlet = input.known.bottom_in
            /\ n.top[0] = r.top.inlet
            /\ n.top[N - 1] = r.top.outlet
            /\ input.arrangement = CounterFlow =>
                   n.bottom[N - 1] = r.bottom.inlet /\ n.bottom[0] = r.bottom.outlet
            /\ input.arrangement = ParallelFlow =>
                   n.bottom[0] = r.bottom.inlet /\ n.bottom[N - 1] = r.bottom.outlet

\* A counterflow discretization with an interior node, distinct endpoint
\* states, and a top inlet state that state_from(P, h) would not reproduce
C3_Witness ==
    /\ Done /\ nodes.ok
    /\ input.N = 3
    /\ input.arrangement = CounterFlow
    /\ resolved.v.q_dot.dir # "None"
    /\ resolved.v.bottom.inlet.temperature # resolved.v.bottom.outlet.temperature
    /\ resolved.v.top.inlet # resolved.v.top.outlet
    /\ state_from_PH(input.th, resolved.v.top.p_in, resolved.v.top.h_in).v
           # resolved.v.top.inlet
    /\ nodes.v.bottom[2] = input.known.bottom_in

ColdToHotRequest ==
    /\ input.given.kind = "HeatTransferRate"
    /\ \/ input.given.q.dir = "TopToBottom" /\ FLt(TopInletTemp, BottomInletTemp)
       \/ input.given.q.dir = "BottomToTop" /\ FGe(TopInletTemp, BottomInletTemp)

\* C4: given HeatTransferRate(q) directed from the colder inlet stream to
\* the hotter one (TopToBottom with T_top_in < T_bot_in, or BottomToTop with
\* T_top_in >= T_bot_in), and no thermo call failing, solve returns
\* SecondLawViolation whose q_dot is q.signed_top_to_bottom().
C4_ColdToHotRejected ==
    Done /\ ColdToHotRequest /\ ~IsThermoModelFailed(result) =>
        /\ IsSecondLawViolation(result)
        /\ result.v.q_dot = signed_top_to_bottom(input.given.q)

\* Both forms of the request rejected: here BottomToTop with equal inlets
C4_Witness ==
    /\ Done /\ ColdToHotRequest
    /\ input.given.q.dir = "BottomToTop"
    /\ TopInletTemp = BottomInletTemp
    /\ IsSecondLawViolation(result)
    /\ result.v.q_dot = FNeg(input.given.q.mag)

\* The inlet comparison of the second-law check and the hot-minus-cold
\* temperature difference at node i of the discretization
InletTopIsHot == FGe(TopInletTemp, BottomInletTemp)
HotMinusCold(i) == NodeDeltaT(nodes.v, InletTopIsHot, i)
NodeIndices == 0..(input.N - 1)

TopOutletDiscretized ==
    /\ Done /\ nodes.ok
    /\ input.given.kind = "TopOutletTemp"
    /\ resolved.v.q_dot.dir # "None"

MaxIters == 7

\* Configurations: an iteration cap of one or MaxIters; tolerances of one
\* unit in the last place or coarser
Configs ==
    {GivenUaConfig(1, 1, 0), GivenUaConfig(MaxIters, 1, 0),
     GivenUaConfig(MaxIters, 1, 10), GivenUaConfig(MaxIters, Num(1), 10)}

\* Inlet temperatures 2.00 and 2.50, and NaN
UaInletTemps == {Num(2), Num(2) + 50, NaN}
UaMassRates == {Num(1), Num(2)}

UaKnowns ==
    {[top_in |-> State(tt, InletDensity), bottom_in |-> State(tb, InletDensity),
      m_top |-> mt, m_bottom |-> mb, dp_top |-> dp, dp_bottom |-> dp] :
        tt \in UaInletTemps, tb \in UaInletTemps,
        mt \in UaMassRates, mb \in UaMassRates, dp \in PressureDrops}

\* Target conductances as Constrained<_, NonNegative> accepts them
UaTargets == {0, Num(1), Num(30)}

\* Top outlet temperatures whose conductance is fed back through given_ua
RoundTripTemps == {Num(2) + 31, Num(2) + 20}

NoRoundTrip == [some |-> FALSE, v |-> 0]

\* The thermo models, the bounded domain ending between the two inlets
UaThermoModels ==
    {IF IsFinite(th.tmax) THEN [th EXCEPT !.tmax = Num(2) + 25] ELSE th : th \in ThermoModels}

UaCases == [arrangement : Arrangements, N : NodeCounts, known : UaKnowns,
            th : UaThermoModels, config : Configs]

WithTarget(c, target_ua, rt) ==
    [arrangement |-> c.arrangement, N |-> c.N, known |-> c.known, th |-> c.th,
     config |-> c.config, target_ua |-> target_ua, rt |-> rt]

BaselineSolve(c, t) == solve(c.arrangement, c.N, c.known, TopOutletTemp(t), c.th)

UaInputs ==
    {WithTarget(c, u, NoRoundTrip) : c \in UaCases, u \in UaTargets}
    \cup {WithTarget(b.c, b.r.v.ua, Some(b.t)) :
            b \in {x \in {[c |-> c, t |-> t, r |-> BaselineSolve(c, t)] :
                              c \in UaCases, t \in RoundTripTemps} :
                      /\ x.r.ok
                      /\ NonNegative_check(x.r.v.ua).ok
                      /\ FGt(x.r.v.ua, 0)}}

InitGivenUa ==
    /\ pc = "ua_ready"
    /\ input \in UaInputs
    /\ resolved = NoValue
    /\ nodes = NoValue
    /\ result = NoValue
    /\ search = NoSearch
    /\ stages = <<>>
    /\ trace = NoTrace

UaModelOf(i) == UaModel(i.arrangement, i.N, i.known, i.th, i.target_ua)

\* given_ua with target_ua = 0: no search, one solve with no heat transfer
GivenUaZero ==
    /\ pc = "ua_ready"
    /\ input.target_ua = 0
    /\ result' = given_ua_zero(solve(input.arrangement, input.N, input.known,
                                     NoHeatTransfer, input.th))
    /\ pc' = "done"
    /\ UNCHANGED <<input, resolved, nodes, search, stages, trace>>

\* given_ua with target_ua > 0 enters bisection::solve on the bracket
\* [T_top_in, T_bot_in]
GivenUaBracket ==
    /\ pc = "ua_ready"
    /\ input.target_ua # 0
    /\ search' = bisection_start(GivenUaConfig_bisection(input.config), UaModelOf(input),
                                 input.known.top_in.temperature,
                                 input.known.bottom_in.temperature)
    /\ pc' = "bisect"
    /\ UNCHANGED <<input, resolved, nodes, result, stages, trace>>

BisectionStep ==
    /\ pc = "bisect"
    /\ search.status = "Running"
    /\ search' = bisection_step(GivenUaConfig_bisection(input.config), UaModelOf(input), search)
    /\ UNCHANGED <<pc, input, resolved, nodes, result, stages, trace>>

GivenUaReturn ==
    /\ pc = "bisect"
    /\ search.status # "Running"
    /\ result' = given_ua_return(search)
    /\ pc' = "done"
    /\ UNCHANGED <<input, resolved, nodes, search, stages, trace>>

NextGivenUa == GivenUaZero \/ GivenUaBracket \/ BisectionStep \/ GivenUaReturn

SpecGivenUa == InitGivenUa /\ [][NextGivenUa]_vars

\* ----------------------------------------------------- given_ua claims

UaDone == pc = "done"
IsGivenUaError(k) == ~result.ok /\ ~result.panic /\ result.v.kind = k
Searching == input.target_ua # 0
EventIndices == 1..Len(search.events)
CapSuffices == input.config.max_iters = MaxIters
CandidateFailed == \E k \in 3..Len(search.events) : search.events[k].is_err

UaInletEnthalpy(state) == enthalpy(input.th, state).v
UaOutletOf(state, dp) ==
    state_from_PH(input.th, FSub(pressure(input.th, state).v, dp),
                  UaInletEnthalpy(state)).v
BottomOutletIndex == IF input.arrangement = CounterFlow THEN 0 ELSE input.N - 1

\* C7 as stated: for target_ua = 0 given_ua runs no bisection and its Ok
\* result has q_dot = None, ua = 0 and each stream's outlet node temperature
\* equal to its inlet temperature, pressure drops included.
C7_ZeroTargetKeepsInletTemperatures ==
    UaDone /\ ~Searching /\ result.ok =>
        /\ search = NoSearch
        /\ result.v.q_dot = HtrNone
        /\ result.v.ua = 0
        /\ result.v.top[input.N - 1].temperature = input.known.top_in.temperature
        /\ result.v.bottom[BottomOutletIndex].temperature
               = input.known.bottom_in.temperature

\* C7, amended: for target_ua = 0 given_ua runs no bisection and returns
\* the result of solve with HeatTransferRate(None), a SolveError as
\* GivenUaError::Solve; an Ok result has q_dot = None, ua = 0 and each
\* outlet node is the state the thermo model builds at (p_in - dp, h_in):
\* the stream leaves with its inlet enthalpy, at whatever temperature the
\* model gives that enthalpy at the outlet pressure.
C7_ZeroTargetKeepsInletEnthalpies ==
    UaDone /\ ~Searching =>
        /\ search = NoSearch
        /\ ~result.ok /\ ~result.panic =>
               /\ result.v.kind = "Solve"
               /\ result.v.source.kind \in {"ThermoModelFailed", "SecondLawViolation"}
        /\ result.ok =>
               /\ result.v.q_dot = HtrNone
               /\ result.v.ua = 0
               /\ result.v.top[input.N - 1]
                      = UaOutletOf(input.known.top_in, input.known.dp_top)
               /\ result.v.bottom[BottomOutletIndex]
                      = UaOutletOf(input.known.bottom_in, input.known.dp_bottom)

\* A zero-target result whose outlets are not at the inlet temperatures
C7_Witness ==
    /\ UaDone /\ ~Searching /\ result.ok
    /\ input.known.dp_top # 0
    /\ result.v.q_dot = HtrNone
    /\ result.v.top[input.N - 1].temperature # input.known.top_in.temperature
    /\ enthalpy(input.th, result.v.top[input.N - 1]).v
           = UaInletEnthalpy(input.known.top_in)

WithinTolerances ==
    /\ FLe(FAbs(FSub(result.v.top[input.N - 1].temperature, input.rt.v)),
           input.config.temp_tol)
    /\ FLe(FAbs(FSub(result.v.ua, input.target_ua)), input.config.ua_tol)

SolvesBounded ==
    /\ search.iters <= input.config.max_iters
    /\ Len(search.events) <= input.config.max_iters + 2
    /\ Len(search.events) <= search.iters + 2

\* C9 as stated: given_ua performs at most max_iters inner solves plus the
\* bracket evaluations and, when it returns, returns Ok (after a search
\* only when the status is Converged), GivenUaError::Bisection, or
\* GivenUaError::MaxIters carrying the search's residual and iterations.
C9_ThreeOutcomes ==
    /\ SolvesBounded
    /\ UaDone /\ ~result.panic =>
           \/ result.ok /\ (Searching => search.status = "Converged")
           \/ IsGivenUaError("Bisection")
           \/ /\ IsGivenUaError("MaxIters")
              /\ result.v.residual = search.best.residual
              /\ result.v.iters = search.iters

\* C9, amended: given_ua performs at most max_iters inner solves plus the
\* two bracket evaluations (one solve when target_ua = 0), and ends in
\* exactly one of: Ok (target_ua = 0, or status Converged);
\* GivenUaError::Solve (only for target_ua = 0, the error of that solve);
\* GivenUaError::Bisection; GivenUaError::MaxIters with the best residual
\* and the iteration count (only when not converged); or the panic of an
\* inner solve.
C9_FourOutcomesOrPanic ==
    /\ SolvesBounded
    /\ UaDone =>
           \/ result.ok /\ (Searching => search.status = "Converged")
           \/ IsGivenUaError("Solve") /\ ~Searching
           \/ IsGivenUaError("Bisection") /\ search.status = "Error"
           \/ /\ IsGivenUaError("MaxIters")
              /\ search.status = "NotConverged"
              /\ search.iters = input.config.max_iters
              /\ result.v.residual = search.best.residual
              /\ result.v.iters = search.iters
           \/ result.panic /\ (Searching => search.status = "Panic")

\* A search that used up the whole iteration cap
C9_Witness ==
    /\ UaDone /\ IsGivenUaError("MaxIters")
    /\ CapSuffices
    /\ result.v.iters = MaxIters
    /\ Len(search.events) = MaxIters + 2

\* C10: no panic is reachable from solve for any inputs its types accept:
\* every failure is returned as an error value.
C10_NoPanicReachable == Done => ~result.panic

\* C18 (as stated): the SecondLawViolation of a rejected cold-to-hot
\* HeatTransferRate request carries |T_top_in - T_bot_in| as min_delta_t.
C18_MinDeltaTIsInletInterval ==
    Done /\ ColdToHotRequest /\ IsSecondLawViolation(result) =>
        result.v.min_delta_t = FAbs(FSub(TopInletTemp, BottomInletTemp))

\* C18 (amended): that SecondLawViolation carries the smallest hot-minus-cold
\* temperature difference over the nodes of the discretization, and the first
\* node where it occurs as violation_node.
C18_MinDeltaTIsNodeMinimum ==
    Done /\ ColdToHotRequest /\ IsSecondLawViolation(result) =>
        /\ nodes.ok
        /\ result.v.violation_node.some
        /\ result.v.violation_node.v \in 0..(input.N - 1)
        /\ result.v.min_delta_t = HotMinusCold(result.v.violation_node.v)
        /\ \A i \in 0..(input.N - 1) :
               /\ FLe(result.v.min_delta_t, HotMinusCold(i))
               /\ i < result.v.violation_node.v => FLt(result.v.min_delta_t, HotMinusCold(i))

\* A counter-flow rejection whose node minimum is above the inlet interval
C18_Witness ==
    /\ Done /\ ColdToHotRequest /\ IsSecondLawViolation(result)
    /\ input.arrangement = CounterFlow
    /\ FGt(input.given.q.mag, 0)
    /\ FGt(TopInletTemp, BottomInletTemp)
    /\ FGt(result.v.min_delta_t, FSub(TopInletTemp, BottomInletTemp))

\* C20 (as stated): the second-law check runs before the minimum temperature
\* difference is computed.
C20_SecondLawCheckBeforeMetrics ==
    Done =>
        \A i, j \in DOMAIN stages :
            stages[i] = "check_second_law" /\ stages[j] = "compute_min_delta_t" => i < j

\* C20 (amended): the stages run in the order boundary resolution, node
\* arrays, node states, minimum temperature difference, second-law check, UA,
\* result assembly; a stage runs only if every fallible stage before it
\* succeeded, and the outcome of the first failing stage is what solve
\* returns.
C20_StagesInCallOrder ==
    Done =>
        /\ \E k \in 1..Len(Pipeline) : stages = RanThrough(k)
        /\ result.ok <=> stages = Pipeline
        /\ Len(stages) = 1 => ~resolved.ok /\ result = resolved /\ nodes = NoValue
        /\ Len(stages) > 1 => resolved.ok
        /\ Len(stages) = 3 => ~nodes.ok /\ result = nodes
        /\ Len(stages) > 3 => nodes.ok
        /\ Len(stages) = 5 =>
               /\ ~result.ok
               /\ result = check_second_law(resolved.v,
                               compute_min_delta_t(input.arrangement, input.N, nodes.v))
        /\ Len(stages) > 5 =>
               check_second_law(resolved.v,
                   compute_min_delta_t(input.arrangement, input.N, nodes.v)).ok
        /\ Len(stages) = 6 =>
               /\ ~result.ok
               /\ result = compute_ua(input.arrangement, input.N, resolved.v.top.m_dot,
                                      resolved.v.bottom.m_dot, resolved.v.q_dot, nodes.v)
        /\ Len(stages) \notin {2, 4}

\* A second-law rejection: the check is the last stage that ran
C20_Witness ==
    /\ Done
    /\ IsSecondLawViolation(result)
    /\ stages = RanThrough(5)
    /\ stages[4] = "compute_min_delta_t"
    /\ stages[5] = "check_second_law"

\* ----------------------------------------------- solve claims: the trace

\* The thermo calls of boundary resolution (they name no node) and of node
\* construction
IsResolutionCall(c) == c.node = NoNode
ResolutionCalls == SelectSeq(trace.calls, IsResolutionCall)
IsNodeCall(c) == c.node # NoNode
NodeCalls == SelectSeq(trace.calls, IsNodeCall)

CallName(c) == ThermoContext(c.call, c.target, c.node)

\* The four inlet calls in the order C21 gives
InletCalls ==
    <<ThermoContext("pressure", "top inlet", NoNode),
      ThermoContext("pressure", "bottom inlet", NoNode),
      ThermoContext("enthalpy", "top inlet", NoNode),
      ThermoContext("enthalpy", "bottom inlet", NoNode)>>

\* C21: boundary resolution issues pressure(top inlet), pressure(bottom
\* inlet), enthalpy(top inlet), enthalpy(bottom inlet) and then the outlet
\* calls of the Given, in that order; the first call that fails ends
\* resolution with ThermoModelFailed whose context names that call and whose
\* source is the call's error, and no thermo call follows it.
C21_ResolutionCallsInOrder ==
    Done =>
        /\ Len(ResolutionCalls) >= 1
        /\ \A k \in DOMAIN ResolutionCalls :
               /\ k <= 4 => CallName(ResolutionCalls[k]) = InletCalls[k]
               /\ k > 4 => ResolutionCalls[k].target \in {"top outlet", "bottom outlet"}
               /\ k < Len(ResolutionCalls) => ResolutionCalls[k].outcome.ok
        /\ ~ResolutionCalls[Len(ResolutionCalls)].outcome.ok =>
               /\ resolved = Err(thermo_failed(
                                     CallName(ResolutionCalls[Len(ResolutionCalls)]),
                                     ResolutionCalls[Len(ResolutionCalls)].outcome.v))
               /\ result = resolved
               /\ trace.calls = ResolutionCalls
        /\ IsThermoModelFailed(resolved) =>
               ~ResolutionCalls[Len(ResolutionCalls)].outcome.ok

\* The third inlet call fails after two that succeeded
C21_Witness ==
    /\ Done
    /\ Len(trace.calls) = 3
    /\ trace.calls[1].outcome.ok
    /\ trace.calls[2].outcome.ok
    /\ ~trace.calls[3].outcome.ok
    /\ IsThermoModelFailed(result)
    /\ result.v.context = ThermoContext("enthalpy", "top inlet", NoNode)
    /\ result.v.source = ThermoError("PropertyError", TopInletTemp)

\* A Given outlet temperature whose two outlet calls succeeded, and the signed
\* heat rate that follows from the enthalpies the calls returned
OutletTempResolved ==
    /\ input.given.kind \in {"TopOutletTemp", "BottomOutletTemp"}
    /\ Len(ResolutionCalls) >= 6
    /\ \A k \in 1..6 : ResolutionCalls[k].outcome.ok

SignedHeatRate ==
    IF input.given.kind = "TopOutletTemp"
    THEN FMul(input.known.m_top,
              FSub(ResolutionCalls[3].outcome.v, ResolutionCalls[6].outcome.v))
    ELSE FMul(input.known.m_bottom,
              FSub(ResolutionCalls[6].outcome.v, ResolutionCalls[4].outcome.v))

\* C22: when the signed heat rate that resolution computes from a given
\* outlet temperature is NaN, resolution returns SecondLawViolation with
\* min_delta_t = T_top_in - T_bot_in, q_dot = NaN and no violation node, and
\* the other stream's outlet state is not requested.
C22_NaNHeatRateRejected ==
    Done /\ OutletTempResolved /\ IsNaN(SignedHeatRate) =>
        /\ IsSecondLawViolation(resolved)
        /\ result = resolved
        /\ resolved.v.min_delta_t = FSub(TopInletTemp, BottomInletTemp)
        /\ IsNaN(resolved.v.q_dot)
        /\ resolved.v.violation_node = None
        /\ Len(trace.calls) = 6
        /\ \A k \in DOMAIN trace.calls :
               trace.calls[k].target = "top outlet" <=> input.given.kind = "TopOutletTemp"
                                                        /\ k > 4

\* A NaN outlet temperature between inlets that are numbers
C22_Witness ==
    /\ Done /\ OutletTempResolved /\ IsNaN(SignedHeatRate)
    /\ input.given.kind = "BottomOutletTemp"
    /\ TopInletTemp = Num(4)
    /\ BottomInletTemp = Num(2)
    /\ IsSecondLawViolation(result)
    /\ result.v.min_delta_t = Num(2)
    /\ Len(trace.calls) = 6

IsTopNodeCall(c) == c.target = "top node"
IsBottomNodeCall(c) == c.target = "bottom node"
TopNodeCalls == SelectSeq(trace.calls, IsTopNodeCall)
BottomNodeCalls == SelectSeq(trace.calls, IsBottomNodeCall)

\* The calls of one stream are state_from calls for nodes 1, 2, ... in order,
\* none of them for node 0 or node N - 1
InteriorAscending(calls) ==
    \A k \in DOMAIN calls :
        /\ calls[k].call = "state_from"
        /\ calls[k].node = k
        /\ k <= input.N - 2

\* C23: node-state construction calls state_from once per interior node
\* 1..N-2 of each stream and never for nodes 0 and N-1, the top stream before
\* the bottom stream and in ascending index order; the first failing call
\* returns ThermoModelFailed with context state_from(<side> node <i>) and no
\* further call is made; with two nodes there is no interior call.
C23_InteriorNodeCalls ==
    Done =>
        /\ NodeCalls = TopNodeCalls \o BottomNodeCalls
        /\ InteriorAscending(TopNodeCalls)
        /\ InteriorAscending(BottomNodeCalls)
        /\ BottomNodeCalls # <<>> => Len(TopNodeCalls) = input.N - 2
        /\ \A k \in DOMAIN NodeCalls : k < Len(NodeCalls) => NodeCalls[k].outcome.ok
        /\ NodeCalls # <<>> => resolved.ok
        /\ NodeCalls # <<>> /\ ~NodeCalls[Len(NodeCalls)].outcome.ok =>
               /\ result = Err(thermo_failed(CallName(NodeCalls[Len(NodeCalls)]),
                                             NodeCalls[Len(NodeCalls)].outcome.v))
               /\ trace.calls[Len(trace.calls)] = NodeCalls[Len(NodeCalls)]
        /\ resolved.ok /\ (NodeCalls = <<>> \/ NodeCalls[Len(NodeCalls)].outcome.ok) =>
               /\ Len(TopNodeCalls) = input.N - 2
               /\ Len(BottomNodeCalls) = input.N - 2
               /\ ~IsThermoModelFailed(result)
        /\ input.N = 2 => NodeCalls = <<>>

\* The second interior node of the bottom stream fails after the top stream's
\* two and the bottom stream's first succeeded
C23_Witness ==
    /\ Done
    /\ input.N = 4
    /\ Len(TopNodeCalls) = 2
    /\ TopNodeCalls[2].node = 2
    /\ Len(BottomNodeCalls) = 2
    /\ BottomNodeCalls[1].outcome.ok
    /\ ~BottomNodeCalls[2].outcome.ok
    /\ IsThermoModelFailed(result)
    /\ result.v.context = ThermoContext("state_from", "bottom node", 2)

\* compute_ua ran with a heat transfer rate that is not None
ComputeUaRan ==
    Done /\ Len(stages) >= 6 /\ resolved.v.q_dot.dir # "None"

\* The capacitance rate m * dh / dT of a stream between nodes i and i + 1
SegmentCapacitance(m_dot, states, enthalpies, i) ==
    FDiv(FMul(m_dot, FSub(enthalpies[i + 1], enthalpies[i])),
         FSub(states[i + 1].temperature, states[i].temperature))

NotStrictlyPositive(i) ==
    \/ ~FGt(SegmentCapacitance(resolved.v.top.m_dot, nodes.v.top,
                               nodes.v.top_enthalpies, i), 0)
    \/ ~FGt(SegmentCapacitance(resolved.v.bottom.m_dot, nodes.v.bottom,
                               nodes.v.bottom_enthalpies, i), 0)

SegmentInletDeltaT(i) ==
    IF resolved.v.q_dot.dir = "BottomToTop"
    THEN FSub(bottom_select(input.arrangement, nodes.v.bottom[i],
                            nodes.v.bottom[i + 1]).temperature,
              nodes.v.top[i].temperature)
    ELSE FSub(nodes.v.top[i].temperature,
              bottom_select(input.arrangement, nodes.v.bottom[i],
                            nodes.v.bottom[i + 1]).temperature)

SegmentViolation ==
    ComputeUaRan /\ IsSecondLawViolation(result) /\ result.v.violation_node.some

\* C25: the min_delta_t of every segment violation is the temperature
\* difference at the segment's inlet end in the hot-to-cold sense of the heat
\* transfer direction (top minus bottom for TopToBottom, bottom minus top for
\* BottomToTop), whichever check of the segment raised it.
C25_SegmentDeltaTHotToCold ==
    SegmentViolation =>
        result.v.min_delta_t = SegmentInletDeltaT(result.v.violation_node.v)

\* C26 as stated: every SecondLawViolation that solve returns carries both
\* outlet temperatures; only the node index is optional.
C26_BothOutletTemperatures ==
    Done /\ IsSecondLawViolation(result) =>
        /\ result.v.top_outlet_temp.some
        /\ result.v.bottom_outlet_temp.some

\* C26: every SecondLawViolation that solve returns carries the signed heat
\* rate and the governing temperature difference; one raised once both
\* outlets are resolved carries both outlet temperatures and a node index,
\* and one raised while resolving from a given outlet temperature carries
\* the temperature of that outlet alone and no node index.
C26_OutletTemperaturesAsResolved ==
    Done /\ IsSecondLawViolation(result) =>
        IF resolved.ok
        THEN /\ result.v.top_outlet_temp = Some(resolved.v.top.outlet.temperature)
             /\ result.v.bottom_outlet_temp = Some(resolved.v.bottom.outlet.temperature)
             /\ result.v.q_dot = signed_top_to_bottom(resolved.v.q_dot)
             /\ result.v.violation_node.some
             /\ result.v.violation_node.v \in 0..(input.N - 1)
        ELSE /\ OutletTempResolved
             /\ result.v.q_dot = SignedHeatRate
             /\ result.v.violation_node = None
             /\ IF input.given.kind = "TopOutletTemp"
                THEN /\ result.v.top_outlet_temp
                            = Some(ResolutionCalls[5].outcome.v.temperature)
                     /\ result.v.bottom_outlet_temp = None
                ELSE /\ result.v.top_outlet_temp = None
                     /\ result.v.bottom_outlet_temp
                            = Some(ResolutionCalls[5].outcome.v.temperature)

\* A violation raised while resolving from a given top outlet temperature:
\* the top outlet temperature is the given one, the bottom one is absent
C26_Witness ==
    /\ Done /\ IsSecondLawViolation(result) /\ ~resolved.ok
    /\ input.given.kind = "TopOutletTemp"
    /\ input.given.t = Num(4)
    /\ result.v.top_outlet_temp = Some(Num(4))
    /\ result.v.bottom_outlet_temp = None

\* The hot side as the inlet nodes decide it, and the hot-minus-cold
\* temperature difference at node i
BottomInletNode == IF input.arrangement = ParallelFlow THEN 0 ELSE input.N - 1
NodeTopIsHot ==
    FGe(nodes.v.top[0].temperature, nodes.v.bottom[BottomInletNode].temperature)
HotColdDelta(i) ==
    IF NodeTopIsHot
    THEN FSub(nodes.v.top[i].temperature, nodes.v.bottom[i].temperature)
    ELSE FSub(nodes.v.bottom[i].temperature, nodes.v.top[i].temperature)

\* value is the least of the differences that are numbers, and node the
\* first index where it occurs; with no difference below +inf the scan keeps
\* its initial +inf at node 0
IsNodeMinimum(value, node) ==
    IF \A i \in NodeIndices : ~FLt(HotColdDelta(i), PInf)
    THEN value = PInf /\ node = 0
    ELSE /\ node \in NodeIndices
         /\ value = HotColdDelta(node)
         /\ \A i \in NodeIndices : IsNaN(HotColdDelta(i)) \/ FLe(value, HotColdDelta(i))
         /\ \A i \in NodeIndices : i < node => ~FEq(HotColdDelta(i), value)

WritesEachSlotOnce(writes) ==
    /\ Len(writes) = input.N
    /\ {writes[j] : j \in DOMAIN writes} = NodeIndices

\* C29: in build_states, for every N >= 2 and both orientations (inlet at
\* index 0 or at index N-1), on the success path each of the N slots of the
\* uninitialized array is written exactly once (inlet slot, outlet slot,
\* interior slots 1..N-2) before the array is read as initialized; on the
\* early-return error path the array is never read as initialized.
C29_SlotsWrittenBeforeRead ==
    Done /\ resolved.ok =>
        /\ Len(trace.slots) \in 1..2
        /\ nodes.ok => Len(trace.slots) = 2
        /\ \A k \in DOMAIN trace.slots :
               /\ k < Len(trace.slots) => trace.slots[k].read
               /\ trace.slots[k].read => WritesEachSlotOnce(trace.slots[k].writes)
               /\ trace.slots[k].read <=> (nodes.ok \/ k < Len(trace.slots))
               /\ ~trace.slots[k].read => IsThermoModelFailed(result)
               /\ \A i, j \in DOMAIN trace.slots[k].writes :
                      trace.slots[k].writes[i] = trace.slots[k].writes[j] => i = j
               /\ trace.slots[k].writes[1] = (IF k = 2 THEN BottomInletNode ELSE 0)
               /\ trace.slots[k].writes[2] = input.N - 1 - trace.slots[k].writes[1]

\* Four nodes in counter flow: the bottom stream's inlet is slot 3
C29_Witness ==
    /\ Done /\ nodes.ok
    /\ input.N = 4
    /\ input.arrangement = CounterFlow
    /\ trace.slots[1] = [writes |-> <<0, 3, 1, 2>>, read |-> TRUE]
    /\ trace.slots[2] = [writes |-> <<3, 0, 1, 2>>, read |-> TRUE]

\* ------------------------------------------------ support state machine
\* One call of a constructor or helper of the support layer on a drawn input.

MaxPasses == 3

\* f64 payloads: NaN, the infinities, and values around 0 and 1
F64Values ==
    {NaN, NInf, PInf, FNeg(Num(1)), 0 - 1, 0, 1, Num(1) - 1, Num(1), Num(1) + 1, Num(2)}
IntValues == IntMin..IntMax

Markers ==
    {"NonNegative", "NonPositive", "NonZero", "StrictlyPositive", "StrictlyNegative",
     "UnitInterval", "UnitIntervalOpen", "UnitIntervalLowerOpen", "UnitIntervalUpperOpen"}
\* The markers over PartialOrd + Zero (any numeric payload) and, of those,
\* the ones with impl Add
SignMarkers == {"NonNegative", "NonPositive", "NonZero", "StrictlyPositive", "StrictlyNegative"}
AddMarkers == {"NonNegative", "NonPositive", "StrictlyPositive", "StrictlyNegative"}

\* A build with debug assertions and overflow checks, and one without
Builds == {"debug", "release"}

ValuesOf(ty) == IF ty = "f64" THEN F64Values ELSE IntValues

ConstrainedNewInputs ==
    {[op |-> "Constrained::new", marker |-> m, ty |-> "f64", value |-> v] :
        m \in Markers, v \in F64Values}
    \cup {[op |-> "Constrained::new", marker |-> m, ty |-> "i32", value |-> v] :
            m \in SignMarkers, v \in IntValues}

\* Operands of + are Constrained values, so each satisfies the marker
ConstrainedAddInputs ==
    {[op |-> "Constrained::add", marker |-> x.marker, ty |-> x.ty, build |-> x.build,
      lhs |-> Constrained(x.marker, x.a), rhs |-> Constrained(x.marker, x.b)] :
        x \in {y \in UNION {[marker : AddMarkers, ty : {ty}, build : Builds,
                             a : ValuesOf(ty), b : ValuesOf(ty)] : ty \in {"f64", "i32"}} :
                  /\ Constraint_check(y.marker, y.a).ok
                  /\ Constraint_check(y.marker, y.b).ok}}

MassFlowsInputs ==
    {[op |-> o, top |-> t, bottom |-> b] :
        o \in {"MassFlows::new", "MassFlows::new_unchecked"},
        t \in F64Values, b \in F64Values}

FromSignedInputs ==
    {[op |-> "from_signed_top_to_bottom", q_dot |-> q] : q \in F64Values \cup Powers}

\* Pass counts: small ones and the ends of the u16 range
ShellPassCounts == 0..MaxPasses \cup {U16Max \div 2, U16Max \div 2 + 1, U16Max}
TubePassCounts == 0..(4 * MaxPasses) \cup {U16Max - 1, U16Max}

ShellAndTubeInputs ==
    {[op |-> "ShellAndTube::new", S |-> S, T |-> T] :
        S \in ShellPassCounts, T \in TubePassCounts}

InverseArrangements ==
    {CounterFlow, ParallelFlow, CrossFlowMixedUnmixed, CrossFlowUnmixedMixed}
    \cup ShellAndTubes

\* Streams of the functional layer: capacitance rates 1 and 2, inlet
\* temperatures 3.0 and 4.0, the resolved stream with no heat flow or one unit
\* of it in either direction
StreamRates == {Num(1), Num(2)}
StreamTemps == {Num(3), Num(4)}
StreamFlows ==
    {HeatFlowNone, [dir |-> "In", rate |-> Num(1)], [dir |-> "Out", rate |-> Num(1)]}

KnownConditionsInputs ==
    {[op |-> "known_conditions_and_inlets", arrangement |-> a,
      inlet0 |-> StreamInlet(c0, t0), stream1 |-> new_from_heat_flow(c1, t1, f)] :
        a \in InverseArrangements, c0 \in StreamRates, t0 \in StreamTemps,
        c1 \in StreamRates, t1 \in StreamTemps, f \in StreamFlows}

\* The grid of the arrangement tests, without NTU = 5: there 1 - effectiveness
\* falls below the resolution of the model's numbers
RoundTripNtus == {0, Num(1) \div 10, Num(1) \div 2, Num(1)}
RoundTripRates ==
    {<<Num(1), PInf>>, <<Num(1), Num(4)>>, <<Num(1), Num(2)>>, <<Num(1), Num(1)>>,
     <<Num(2), Num(1)>>, <<Num(4), Num(1)>>, <<PInf, Num(1)>>}

RoundTripInputs ==
    {[op |-> "roundtrip", arrangement |-> a, ntu |-> n, capacitance_rates |-> r] :
        a \in InverseArrangements, n \in RoundTripNtus, r \in RoundTripRates}

SupportInputs ==
    ConstrainedNewInputs \cup ConstrainedAddInputs \cup MassFlowsInputs
    \cup FromSignedInputs \cup ShellAndTubeInputs \cup KnownConditionsInputs
    \cup RoundTripInputs

InitSupport ==
    /\ pc = "support_ready"
    /\ input \in SupportInputs
    /\ resolved = NoValue
    /\ nodes = NoValue
    /\ result = NoValue
    /\ search = NoSearch
    /\ stages = <<>>
    /\ trace = NoTrace

Called(op) == pc = "support_ready" /\ input.op = op

Returned == pc' = "done" /\ UNCHANGED <<input, resolved, nodes, search, stages, trace>>

ConstrainedNew ==
    /\ Called("Constrained::new")
    /\ result' = Constrained_new(input.marker, input.value)
    /\ Returned

ConstrainedAdd ==
    /\ Called("Constrained::add")
    /\ result' = Constrained_add(input.ty, input.build, input.lhs, input.rhs)
    /\ Returned

MassFlowsNew ==
    /\ Called("MassFlows::new")
    /\ result' = MassFlows_new(input.top, input.bottom)
    /\ Returned

MassFlowsNewUnchecked ==
    /\ Called("MassFlows::new_unchecked")
    /\ result' = MassFlows_new_unchecked(input.top, input.bottom)
    /\ Returned

FromSignedTopToBottom ==
    /\ Called("from_signed_top_to_bottom")
    /\ result' = from_signed_top_to_bottom(input.q_dot)
    /\ Returned

ShellAndTubeNew ==
    /\ Called("ShellAndTube::new")
    /\ result' = ShellAndTube_new(input.S, input.T)
    /\ trace' = [trace EXCEPT !.ops = ShellAndTube_validate_ops(input.S, input.T)]
    /\ pc' = "done"
    /\ UNCHANGED <<input, resolved, nodes, search, stages>>

KnownConditionsAndInlets ==
    /\ Called("known_conditions_and_inlets")
    /\ result' = known_conditions_and_inlets(input.arrangement, input.inlet0, input.stream1)
    /\ Returned

RoundTrip ==
    /\ Called("roundtrip")
    /\ result' = roundtrip(input.arrangement, input.ntu, input.capacitance_rates)
    /\ Returned

NextSupport ==
    \/ ConstrainedNew
    \/ ConstrainedAdd
    \/ MassFlowsNew
    \/ MassFlowsNewUnchecked
    \/ FromSignedTopToBottom
    \/ ShellAndTubeNew
    \/ KnownConditionsAndInlets
    \/ RoundTrip

SpecSupport == InitSupport /\ [][NextSupport]_vars

\* ------------------------------------------------------- support claims

Ran(op) == pc = "done" /\ input.op = op

\* The predicate each marker stands for, on a number that is not NaN
Satisfies(marker, v) ==
    /\ ~IsNaN(v)
    /\ CASE marker = "NonNegative" -> v >= 0
         [] marker = "NonPositive" -> v <= 0
         [] marker = "NonZero" -> v # 0
         [] marker = "StrictlyPositive" -> v > 0
         [] marker = "StrictlyNegative" -> v < 0
         [] marker = "UnitInterval" -> 0 <= v /\ v <= Num(1)
         [] marker = "UnitIntervalOpen" -> 0 < v /\ v < Num(1)
         [] marker = "UnitIntervalLowerOpen" -> 0 < v /\ v <= Num(1)
         [] marker = "UnitIntervalUpperOpen" -> 0 <= v /\ v < Num(1)

\* C11: under each of the nine markers Constrained::new(v) is Ok exactly when
\* v satisfies the marker's predicate, into_inner of the Ok value is v, and a
\* NaN is rejected with NotANumber.
C11_ConstrainedNewChecksPredicate ==
    Ran("Constrained::new") =>
        /\ result.ok <=> Satisfies(input.marker, input.value)
        /\ result.ok => into_inner(result.v) = input.value
        /\ IsNaN(input.value) => result = Err("NotANumber")

C11_Witness ==
    /\ Ran("Constrained::new")
    /\ input.marker = "UnitIntervalLowerOpen"
    /\ input.value = 0
    /\ result = Err("BelowMinimum")

\* C12 (as stated): the inner value of the sum of two values constrained by
\* the same sign marker satisfies the marker's predicate, integer payloads
\* whose sum leaves the type's range included.
C12_AdditionClosed ==
    Ran("Constrained::add") /\ result.ok =>
        Satisfies(input.marker, into_inner(result.v))

\* C13 (as stated): every MassFlows a public constructor returns holds a
\* strictly positive top rate and a strictly positive bottom rate.
C13_MassFlowsStrictlyPositive ==
    (Ran("MassFlows::new") \/ Ran("MassFlows::new_unchecked")) /\ result.ok =>
        /\ Satisfies("StrictlyPositive", result.v.top)
        /\ Satisfies("StrictlyPositive", result.v.bottom)

\* C14: from_signed_top_to_bottom(q) is TopToBottom(q) for q > 0,
\* BottomToTop(-q) for q < 0, None for q = 0 and Err(NotANumber) for NaN; for
\* a q that is not NaN, signed_top_to_bottom gives q back and magnitude is |q|.
C14_SignedHeatTransferRate ==
    Ran("from_signed_top_to_bottom") =>
        /\ IsNaN(input.q_dot) => result = Err("NotANumber")
        /\ ~IsNaN(input.q_dot) =>
            /\ input.q_dot > 0 => result = Ok(TopToBottom(input.q_dot))
            /\ input.q_dot < 0 => result = Ok(BottomToTop(FNeg(input.q_dot)))
            /\ input.q_dot = 0 => result = Ok(HtrNone)
            /\ result.ok
            /\ signed_top_to_bottom(result.v) = input.q_dot
            /\ magnitude(result.v) = FAbs(input.q_dot)

C14_Witness ==
    /\ Ran("from_signed_top_to_bottom")
    /\ input.q_dot = FNeg(Num(2))
    /\ result = Ok(BottomToTop(Num(2)))
    /\ signed_top_to_bottom(result.v) = FNeg(Num(2))

\* The outcome C15 lists for <S, T>, in unbounded arithmetic
FirstApplicableOutcome(S, T) ==
    IF S = 0 THEN "ZeroShellPasses"
    ELSE IF S > 32767 THEN "ShellPassOverflow"
    ELSE IF T < 2 * S THEN "InsufficientTubePasses"
    ELSE IF T % (2 * S) # 0 THEN "TubePassesNotMultiple"
    ELSE "Ok"

\* C15: ShellAndTube::<S, T>::new() returns the first applicable of
\* ZeroShellPasses (S = 0), ShellPassOverflow (S > 32767),
\* InsufficientTubePasses (T < 2S), TubePassesNotMultiple (T not a multiple of
\* 2S), and Ok otherwise.
C15_ShellAndTubeFirstOutcome ==
    Ran("ShellAndTube::new") =>
        IF result.ok THEN FirstApplicableOutcome(input.S, input.T) = "Ok"
        ELSE result = Err(FirstApplicableOutcome(input.S, input.T))

C15_Witness ==
    /\ Ran("ShellAndTube::new")
    /\ input.S = U16Max \div 2 + 1
    /\ input.T = 0
    /\ result = Err("ShellPassOverflow")

\* C16 (as stated): new() is Ok exactly when S >= 1 and T is a positive even
\* multiple of 2S, that is a positive multiple of 4S.
C16_EvenMultipleOfTwiceS ==
    Ran("ShellAndTube::new") =>
        (result.ok <=> (input.S >= 1 /\ input.T > 0 /\ input.T % (4 * input.S) = 0))

\* C16 (amended): new() is Ok exactly when S >= 1 and T is a positive multiple
\* of 2S.
C16_MultipleOfTwiceS ==
    Ran("ShellAndTube::new") =>
        (result.ok <=> (input.S >= 1 /\ input.T > 0 /\ input.T % (2 * input.S) = 0))

C16_Witness ==
    /\ Ran("ShellAndTube::new")
    /\ input.S = 1
    /\ input.T = 2
    /\ result = Ok([S |-> 1, T |-> 2])

\* C17: with equal inlet temperatures (Q_max = 0) known_conditions_and_inlets
\* fails with AboveMaximum when the resolved stream's heat flow is not zero,
\* and otherwise returns ua = 0, ntu = 0 and no heat flow on the inlet-only
\* stream.
C17_ZeroMaxHeatFlow ==
    Ran("known_conditions_and_inlets")
    /\ input.inlet0.temperature = input.stream1.inlet_temperature =>
        IF input.stream1.heat_flow # HeatFlowNone
        THEN result = Err("AboveMaximum")
        ELSE /\ result.ok
             /\ result.v.ua = 0
             /\ result.v.ntu = 0
             /\ result.v.streams[1].heat_flow = HeatFlowNone
             /\ result.v.streams[2] = input.stream1

C17_Witness ==
    /\ Ran("known_conditions_and_inlets")
    /\ input.inlet0.temperature = input.stream1.inlet_temperature
    /\ input.stream1.heat_flow = HeatFlowNone
    /\ input.arrangement \in ShellAndTubes
    /\ result.ok
    /\ result.v.ntu = 0

\* C19 (as stated, up to the model's resolution): on the grid the round trip
\* ntu(effectiveness(NTU, Cr), Cr) returns a value, and for NTU = 0 that
\* value is 0.
C19_RoundTripReturnsNtu ==
    Ran("roundtrip") =>
        /\ result.ok
        /\ input.ntu = 0 => result.v = 0

\* The sign class of a number
SignClass(v) == IF v < 0 THEN "Negative" ELSE IF v > 0 THEN "Positive" ELSE "Zero"

\* C28: under each sign marker (NonNegative, NonPositive, NonZero,
\* StrictlyPositive, StrictlyNegative) the ConstraintError that
\* Constrained::new returns for a rejected number names the number's sign
\* class: Negative for a negative value, Positive for a positive one, Zero for
\* zero.
C28_ErrorNamesSignClass ==
    Ran("Constrained::new") /\ input.marker \in SignMarkers
        /\ ~IsNaN(input.value) /\ ~result.ok =>
            result = Err(SignClass(input.value))

\* C30: ShellAndTube::validate never overflows u16 arithmetic: for every
\* pair (S, T) the product 2 * S is evaluated only after S <= 32767 has been
\* established, so that it is at most 65534 in every comparison and remainder
\* it takes part in, and no remainder is taken modulo zero.
C30_NoU16Overflow ==
    Ran("ShellAndTube::new") =>
        /\ input.S > U16Max \div 2 => trace.ops = <<>>
        /\ \A k \in DOMAIN trace.ops :
               /\ trace.ops[k].op = "mul" =>
                      /\ trace.ops[k].b = input.S
                      /\ input.S <= U16Max \div 2
                      /\ trace.ops[k].a * trace.ops[k].b <= U16Max - 1
               /\ trace.ops[k].op = "rem" =>
                      /\ trace.ops[k].b = 2 * input.S
                      /\ trace.ops[k].b # 0

\* The largest S that passes the guard, with 2 * S = 65534 tube passes
C30_Witness ==
    /\ Ran("ShellAndTube::new")
    /\ input.S = U16Max \div 2
    /\ input.T = U16Max - 1
    /\ trace.ops = <<U16Op("mul", 2, input.S), U16Op("mul", 2, input.S),
                     U16Op("rem", input.T, U16Max - 1)>>
    /\ result.ok

====
